---- MODULE Spec2Model ----
(***************************************************************************)
(* Model of the Terralith -> vanilla biome remapper                        *)
(* (terralith_biome_remap_standalone.py).                                  *)
(*                                                                         *)
(* A region file is modelled at the granularity the code works at: the     *)
(* location table, the timestamp table, the total byte length, and the     *)
(* chunk blobs stored at sector offsets.  A blob is its compression tag    *)
(* and its payload; the declared length L is the payload length plus one,  *)
(* because _get_chunk_blob returns exactly the L+4 bytes it declares.      *)
(* Byte lengths are integers in bytes, sectors are 4096 bytes.             *)
(***************************************************************************)
EXTENDS Integers, Sequences, FiniteSets, TLC

\* ------------------------------------------------------------------ bounds
NumSlots == 2          \* slots of the location table (the code has 1024)
ClockStart == 3        \* wall-clock tick at which the model starts
ClockTicks == 1        \* ticks that pass during the model's runs
TicksPerSecond == 2    \* ticks of time.time() per unit of int(time.time())
InStride == 300        \* sectors between stored chunks of an input region
MaxRuns == 2           \* runs of the worker on the same region file
MaxLines == 3          \* option lines of a mapping INI file
NumProbeFiles == 2     \* region files handed to probe mode
NumRegions == 2        \* region files of a remap job
MaxClicks == 3         \* clicks on the Run button of the GUI

\* ------------------------------------------------------- program constants
SECTOR_BYTES == 4096
HEADER_BYTES == SECTOR_BYTES * 2
MAX_SECTORS == 255
MaxClock == ClockStart + ClockTicks

Slots == 0 .. (NumSlots - 1)

\* ------------------------------------------------------------- biome ids
\* A biome id "namespace:name" is the record of its two parts.
Id(ns, name) == [ns |-> ns, name |-> name]

NsLen(ns) ==
  CASE ns = "universal_minecraft" -> 19
    [] ns = "universal_terralith" -> 19
    [] ns = "minecraft" -> 9
    [] ns = "terralith" -> 9
    [] OTHER -> 5

NameLen(name) ==
  CASE name = "yellowstone" -> 11
    [] name = "badlands" -> 8
    [] name = "plains" -> 6
    [] name = "desert" -> 6
    [] OTHER -> 4

IdLen(id) == NsLen(id.ns) + 1 + NameLen(id.name)

\* Faulty variant: the universal_terralith prefix is not recognised.
NormalizeMut(id) ==
  IF id.ns = "universal_minecraft" THEN Id("minecraft", id.name) ELSE id

\* _normalize_biome_name
Normalize(id) ==
  IF id.ns = "universal_minecraft" THEN Id("minecraft", id.name)
  ELSE IF id.ns = "universal_terralith" THEN Id("terralith", id.name)
  ELSE id

\* Optional values.
None == [has |-> FALSE, val |-> Id("", "")]
Some(v) == [has |-> TRUE, val |-> v]

\* A mapping is a set of <<key, value>> pairs with distinct keys (a dict).
MappingGet(M, n) ==
  IF \E p \in M : p[1] = n
  THEN Some((CHOOSE p \in M : p[1] = n)[2])
  ELSE None

\* Lines 487-489: the replacement looked up for a normalized id.
Replacement(norm, M, F) ==
  LET new == MappingGet(M, norm)
  IN IF (~new.has) /\ F.has /\ norm.ns = "terralith" THEN F ELSE new

\* Faulty variant: the test new != norm is dropped.
OverwritesMut(raw, M, F) ==
  Replacement(Normalize(raw), M, F).has

\* Line 490: the entry is overwritten.
Overwrites(raw, M, F) ==
  LET norm == Normalize(raw)
      new == Replacement(norm, M, F)
  IN new.has /\ new.val # norm

\* Faulty variant: an entry that is not replaced is stored normalized.
NewEntryMut(raw, M, F) ==
  LET norm == Normalize(raw)
      new == Replacement(norm, M, F)
  IN IF new.has THEN new.val ELSE norm

\* Lines 483-491: the value of a palette entry after the loop body.
NewEntry(raw, M, F) ==
  IF Overwrites(raw, M, F) THEN Replacement(Normalize(raw), M, F).val ELSE raw

\* -------------------------------------------------------- mapping INI
\* _normalize_target_biome_id
NormalizeTarget(id) ==
  IF id = Id("minecraft", "mountains") THEN Id("minecraft", "windswept_hills") ELSE id

\* out[k] = v on a dict held as a set of pairs.
DictSet(M, k, v) == {p \in M : p[1] # k} \cup {<<k, v>>}

\* An INI file: whether the path exists, whether its text is well formed
\* (every line of the right shape), whether it has a [mapping] section, and
\* the "key = value" lines of that section in file order.  A value is an
\* optional id: "key =" gives the empty string.
IniLine(key, val) == [key |-> key, val |-> val]
IniFile(exists, wellformed, section, lines) ==
  [exists |-> exists, wellformed |-> wellformed, section |-> section, lines |-> lines]

\* Line 162: out[k2] = v2.
IniOutSet(out, k2, v2) == DictSet(out, k2, v2)

HasDuplicateOption(lines) ==
  \E i \in 1 .. Len(lines), j \in 1 .. Len(lines) : i < j /\ lines[i].key = lines[j].key

\* cfg.read / cfg.read_string of a ConfigParser(delimiters=("=",)), which is
\* strict: it raises on malformed text and on an option given twice in a
\* section (ok = FALSE).
ConfigRead(f) ==
  [ok |-> f.wellformed /\ ~HasDuplicateOption(f.lines),
   section |-> f.section,
   items |-> f.lines]

\* Lines 155-162: the loop over cfg["mapping"].items().
RECURSIVE IniLoop(_, _)
IniLoop(items, n) ==
  IF n = 0 THEN {}
  ELSE LET out == IniLoop(items, n - 1)
           v == items[n].val
       IN IF ~v.has THEN out
          ELSE IniOutSet(out, Normalize(items[n].key),
                         NormalizeTarget(Normalize(v.val)))

IniFallback == { <<Id("terralith", "yellowstone"), Id("minecraft", "badlands")>> }

\* Faulty variant: the mapping of the file is returned even when empty.
LoadMappingFromIniMut(f) ==
  LET cfg == ConfigRead(f)
      out == IniLoop(cfg.items, Len(cfg.items))
  IN IF ~f.exists THEN IniFallback
     ELSE IF ~cfg.ok THEN IniFallback
     ELSE IF ~cfg.section THEN IniFallback
     ELSE out

\* _load_mapping_from_ini_text: the same on a string, which is always there.
LoadMappingFromIniText(f) ==
  LET cfg == ConfigRead(f)
      out == IniLoop(cfg.items, Len(cfg.items))
  IN IF ~cfg.ok THEN IniFallback
     ELSE IF ~cfg.section THEN IniFallback
     ELSE IF out = {} THEN IniFallback
     ELSE out

\* _load_mapping_from_ini
LoadMappingFromIni(f) ==
  LET cfg == ConfigRead(f)
      out == IniLoop(cfg.items, Len(cfg.items))
  IN IF ~f.exists THEN IniFallback
     ELSE IF ~cfg.ok THEN IniFallback
     ELSE IF ~cfg.section THEN IniFallback
     ELSE IF out = {} THEN IniFallback
     ELSE out

\* ------------------------------------------------------------- NBT trees
\* A chunk root: the key path under which the sections list sits, the
\* sections, and the byte size of everything else (blocks, entities, ...).
\* A section: optional integer Y, the biome container key, the palette key
\* inside it, the palette, and a token for the rest of the section.
NoY == [has |-> FALSE, val |-> 0]
SomeY(y) == [has |-> TRUE, val |-> y]

Section(y, ckey, pkey, palette, rest) ==
  [Y |-> y, ckey |-> ckey, pkey |-> pkey, palette |-> palette, rest |-> rest]

Root(skey, sections, bulk) ==
  [skey |-> skey, sections |-> sections, bulk |-> bulk]

\* _get_sections: the list is found under these four paths.
HasSections(root) ==
  root.skey \in {"sections", "Sections", "Level.sections", "Level.Sections"}

\* _iter_biome_palette_lists: is the section's palette list yielded.
PaletteYielded(sec) ==
  \/ sec.ckey = "biomes" /\ sec.pkey = "palette"
  \/ sec.ckey = "Biomes" /\ sec.pkey = "palette" /\ Len(sec.palette) > 0
  \/ sec.ckey = "Biomes" /\ sec.pkey = "Palette"

\* Lines 462-467: the Y filter; yr = [has, lo, hi].
NoRange == [has |-> FALSE, lo |-> 0, hi |-> 0]
Range(lo, hi) == [has |-> TRUE, lo |-> lo, hi |-> hi]

\* run(), lines 805-809: --y Y_MIN Y_MAX, swapped when given in reverse.
YRangeArg(a, b) == IF a > b THEN Range(b, a) ELSE Range(a, b)

\* Faulty variant: a section that only touches the range is skipped.
SectionSkippedMut(sec, yr) ==
  /\ sec.Y.has
  /\ yr.has
  /\ (sec.Y.val * 16 + 15 <= yr.lo \/ sec.Y.val * 16 >= yr.hi)

SectionSkipped(sec, yr) ==
  /\ sec.Y.has
  /\ yr.has
  /\ (sec.Y.val * 16 + 15 < yr.lo \/ sec.Y.val * 16 > yr.hi)

SectionRemapped(sec, yr) == (~SectionSkipped(sec, yr)) /\ PaletteYielded(sec)

RemapSection(sec, M, F, yr) ==
  IF SectionRemapped(sec, yr)
  THEN [sec EXCEPT !.palette =
          [i \in 1 .. Len(sec.palette) |-> NewEntry(sec.palette[i], M, F)]]
  ELSE sec

SectionEntriesChanged(sec, M, F, yr) ==
  IF SectionRemapped(sec, yr)
  THEN Cardinality({i \in 1 .. Len(sec.palette) : Overwrites(sec.palette[i], M, F)})
  ELSE 0

RECURSIVE SumEntries(_, _, _, _, _)
SumEntries(sections, k, M, F, yr) ==
  IF k = 0 THEN 0
  ELSE SumEntries(sections, k - 1, M, F, yr)
       + SectionEntriesChanged(sections[k], M, F, yr)

\* _remap_chunk_biome_palettes: the tree after the call, the changed flag
\* and the number of entries changed.
RemapChunk(root, M, F, yr) ==
  IF (~HasSections(root)) \/ Len(root.sections) = 0
  THEN [tree |-> root, changed |-> FALSE, entries |-> 0]
  ELSE LET n == SumEntries(root.sections, Len(root.sections), M, F, yr)
       IN [tree |-> [root EXCEPT !.sections =
                       [k \in 1 .. Len(root.sections) |->
                          RemapSection(root.sections[k], M, F, yr)]],
           changed |-> n > 0,
           entries |-> n]

RECURSIVE PaletteBytes(_, _)
PaletteBytes(palette, i) ==
  IF i = 0 THEN 0 ELSE PaletteBytes(palette, i - 1) + 2 + IdLen(palette[i])

RECURSIVE SectionsBytes(_, _)
SectionsBytes(sections, k) ==
  IF k = 0 THEN 0
  ELSE SectionsBytes(sections, k - 1)
       + PaletteBytes(sections[k].palette, Len(sections[k].palette))

\* Size of the serialized NBT (nbt_file.write): the strings plus the rest.
RawLen(root) == root.bulk + SectionsBytes(root.sections, Len(root.sections))

\* ------------------------------------------------------ chunk envelopes
\* A payload is the bytes after the tag: which codec produced them ("gzip",
\* "zlib", "none" for plain NBT, "junk" for undecodable bytes), whether the
\* decoded bytes parse as NBT, and the tree they encode.
Payload(codec, ok, tree) == [codec |-> codec, ok |-> ok, tree |-> tree]
Blob(tag, payload) == [tag |-> tag, payload |-> payload]

CodecOverhead(codec) ==
  CASE codec = "gzip" -> 23
    [] codec = "zlib" -> 11
    [] OTHER -> 0

PayloadLen(p) == RawLen(p.tree) + CodecOverhead(p.codec)

\* The 4-byte length field L and len(blob) = L + 4.
BlobL(blob) == PayloadLen(blob.payload) + 1
BlobLen(blob) == 4 + BlobL(blob)

\* _chunk_blob_compression_type (every extracted blob has at least 5 bytes).
ChunkBlobCompressionType(blob) == blob.tag

\* _decompress_chunk_nbt: the raw bytes, or a raised error (ok = FALSE).
\* The length-mismatch branch cannot be taken: the blob is exactly L+4 bytes.
Decompress(blob) ==
  CASE blob.tag = 1 ->
         [ok |-> blob.payload.codec = "gzip",
          raw |-> Payload("none", blob.payload.ok, blob.payload.tree)]
    [] blob.tag = 2 ->
         [ok |-> blob.payload.codec = "zlib",
          raw |-> Payload("none", blob.payload.ok, blob.payload.tree)]
    [] blob.tag = 3 -> [ok |-> TRUE, raw |-> blob.payload]
    [] OTHER -> [ok |-> FALSE, raw |-> blob.payload]

\* nbtlib.File.parse on the raw bytes.
ParseNbt(raw) == [ok |-> raw.codec = "none" /\ raw.ok, tree |-> raw.tree]

\* Faulty variant: every chunk is written as zlib.
CompressMut(tree, compression_type) ==
  Blob(2, Payload("zlib", TRUE, tree))

\* _compress_chunk_nbt on the serialization of a tree.
Compress(tree, compression_type) ==
  CASE compression_type = 1 -> Blob(1, Payload("gzip", TRUE, tree))
    [] compression_type = 2 -> Blob(2, Payload("zlib", TRUE, tree))
    [] compression_type = 3 -> Blob(3, Payload("none", TRUE, tree))
    [] OTHER -> Blob(2, Payload("zlib", TRUE, tree))

\* --------------------------------------------------------- region files
\* A region: total byte length, location table (slot -> sector offset and
\* sector count), timestamp table, and the blobs stored at sector offsets.
\* A sector offset outside DOMAIN data holds zero bytes (declared length 0).
Loc(off, count) == [off |-> off, count |-> count]

Region(len, locs, ts, data) ==
  [len |-> len, locs |-> locs, ts |-> ts, data |-> data]

EmptyTree == Root("none", <<>>, 0)
NoBlob == Blob(0, Payload("junk", FALSE, EmptyTree))
NoData == [o \in {} |-> NoBlob]

EmptyRegion ==
  Region(HEADER_BYTES, [i \in Slots |-> Loc(0, 0)], [i \in Slots |-> 0], NoData)

\* _read_locations indexes entry[3] of every slot: it raises on a file
\* shorter than the location table.
HeaderReadable(r) == r.len >= SECTOR_BYTES

\* _read_locations
ReadLocations(r) == r.locs

\* Faulty variant: the table is read at offset 0 instead of SECTOR_BYTES.
ReadTimestampsMut(r) == [i \in Slots |-> r.locs[i].off * 256 + r.locs[i].count]

\* _read_timestamps
ReadTimestamps(r) == r.ts

\* _iter_present_chunks: a slot is present iff offset and count are nonzero.
Present(loc) == loc.off # 0 /\ loc.count # 0

DeclaredLength(r, off) == IF off \in DOMAIN r.data THEN BlobL(r.data[off]) ELSE 0

\* _get_chunk_blob: ok = FALSE stands for None.
GetChunkBlob(r, off, count) ==
  LET start == off * SECTOR_BYTES
      end == start + count * SECTOR_BYTES
      length == DeclaredLength(r, off)
  IN IF off = 0 \/ count = 0 THEN [ok |-> FALSE, blob |-> NoBlob]
     ELSE IF start + 5 > r.len \/ end > r.len THEN [ok |-> FALSE, blob |-> NoBlob]
     ELSE IF length <= 0 THEN [ok |-> FALSE, blob |-> NoBlob]
     ELSE IF start + 4 + length > r.len THEN [ok |-> FALSE, blob |-> NoBlob]
     ELSE [ok |-> TRUE, blob |-> r.data[off]]

\* math.ceil(len(blob) / SECTOR_BYTES), at least 1 (line 611).
SectorsNeeded(blob) ==
  LET n == (BlobLen(blob) + SECTOR_BYTES - 1) \div SECTOR_BYTES
  IN IF n < 1 THEN 1 ELSE n

\* Lines 624-626: a location entry as written to the header (3-byte offset,
\* count & 0xFF) and read back.
EncodeLoc(off, count) == Loc(off % 16777216, count % 256)

\* updated_blobs: a function from the changed slots to [blob, changed].
NoUpdates == [i \in {} |-> [blob |-> NoBlob, changed |-> FALSE]]

\* Faulty variant: the payload area starts one sector late.
RebuildInitMut ==
  [cur |-> 3,
   locs |-> [i \in Slots |-> Loc(0, 0)],
   ts |-> [i \in Slots |-> 0],
   data |-> NoData,
   raised |-> FALSE]

\* Lines 593-595: current_sector = 2 and empty tables.
RebuildInit ==
  [cur |-> 2,
   locs |-> [i \in Slots |-> Loc(0, 0)],
   ts |-> [i \in Slots |-> 0],
   data |-> NoData,
   raised |-> FALSE]

\* Faulty variant: a blob of more than 255 sectors is placed like any other.
RebuildPlaceNoLimit(acc, idx, blob, tsv) ==
  [acc EXCEPT !.locs[idx] = Loc(acc.cur, SectorsNeeded(blob)),
              !.ts[idx] = tsv,
              !.data = (acc.cur :> blob) @@ acc.data,
              !.cur = acc.cur + SectorsNeeded(blob)]

\* Faulty variant: current_sector is not used for the offset.
RebuildPlaceMut(acc, idx, blob, tsv) ==
  [acc EXCEPT !.locs[idx] = Loc(2, SectorsNeeded(blob)),
              !.ts[idx] = tsv,
              !.data = (2 :> blob) @@ acc.data,
              !.cur = acc.cur + SectorsNeeded(blob)]

\* Lines 611-621: place one blob at current_sector.
RebuildPlace(acc, idx, blob, tsv) ==
  IF SectorsNeeded(blob) > MAX_SECTORS
  THEN [acc EXCEPT !.raised = TRUE]
  ELSE [acc EXCEPT !.locs[idx] = Loc(acc.cur, SectorsNeeded(blob)),
                   !.ts[idx] = tsv,
                   !.data = (acc.cur :> blob) @@ acc.data,
                   !.cur = acc.cur + SectorsNeeded(blob)]

\* Line 604: the timestamp of a slot that is in updated_blobs.
RebuildTs(was_changed, now_ts, old_ts) == IF was_changed THEN now_ts ELSE old_ts

\* Faulty variant: a present slot whose blob cannot be extracted is dropped
\* from the location table but keeps its timestamp.
RebuildStepMut(original, updated, now_ts, acc, idx) ==
  LET loc == ReadLocations(original)[idx]
      got == GetChunkBlob(original, loc.off, loc.count)
  IN IF acc.raised THEN acc
     ELSE IF loc.off = 0 \/ loc.count = 0 THEN acc
     ELSE IF idx \in DOMAIN updated
       THEN RebuildPlace(acc, idx, updated[idx].blob,
                         RebuildTs(updated[idx].changed, now_ts,
                                   ReadTimestamps(original)[idx]))
     ELSE IF ~got.ok THEN [acc EXCEPT !.ts[idx] = ReadTimestamps(original)[idx]]
     ELSE RebuildPlace(acc, idx, got.blob, ReadTimestamps(original)[idx])

\* Lines 597-621: the body of the loop for one index.
RebuildStep(original, updated, now_ts, acc, idx) ==
  LET loc == ReadLocations(original)[idx]
      got == GetChunkBlob(original, loc.off, loc.count)
  IN IF acc.raised THEN acc
     ELSE IF loc.off = 0 \/ loc.count = 0 THEN acc
     ELSE IF idx \in DOMAIN updated
       THEN RebuildPlace(acc, idx, updated[idx].blob,
                         RebuildTs(updated[idx].changed, now_ts,
                                   ReadTimestamps(original)[idx]))
     ELSE IF ~got.ok THEN acc
     ELSE RebuildPlace(acc, idx, got.blob, ReadTimestamps(original)[idx])

RECURSIVE RebuildLoop(_, _, _, _)
RebuildLoop(original, updated, now_ts, n) ==
  IF n = 0 THEN RebuildInit
  ELSE RebuildStep(original, updated, now_ts,
                   RebuildLoop(original, updated, now_ts, n - 1), n - 1)

\* _rebuild_region: ok = FALSE when it raises "Chunk too large".
RebuildRegion(original, updated, now_ts) ==
  LET acc == RebuildLoop(original, updated, now_ts, NumSlots)
  IN [ok |-> ~acc.raised,
      out |-> Region(acc.cur * SECTOR_BYTES,
                     [i \in Slots |-> EncodeLoc(acc.locs[i].off, acc.locs[i].count)],
                     acc.ts,
                     acc.data)]

\* ------------------------------------------------- the per-region worker
\* The arguments of _process_region_file.
Args(mapping, F, yr, dry_run, make_backup) ==
  [mapping |-> mapping, F |-> F, yr |-> yr,
   dry_run |-> dry_run, make_backup |-> make_backup]

LoopInit ==
  [processed |-> 0, changed |-> 0, entries_changed |-> 0, parse_errors |-> 0,
   updated |-> NoUpdates]

\* Faulty variant: a chunk that raised is re-encoded into updated_blobs.
ChunkErrorMut(acc, idx, blob) ==
  [acc EXCEPT !.parse_errors = acc.parse_errors + 1,
              !.updated = (idx :> [blob |-> Compress(blob.payload.tree, blob.tag),
                                   changed |-> FALSE]) @@ acc.updated]

\* Lines 713-720: a chunk that raised is counted and left alone.
ChunkError(acc, idx, blob) ==
  [acc EXCEPT !.parse_errors = acc.parse_errors + 1]

\* Lines 662-720: the body of the chunk loop for one slot.
LoopStep(original, a, acc, idx) ==
  LET loc == ReadLocations(original)[idx]
      got == GetChunkBlob(original, loc.off, loc.count)
      comp == ChunkBlobCompressionType(got.blob)
      dec == Decompress(got.blob)
      nbt == ParseNbt(dec.raw)
      rm == RemapChunk(nbt.tree, a.mapping, a.F, a.yr)
      seen == [acc EXCEPT !.processed = acc.processed + 1]
  IN IF ~Present(loc) THEN acc
     ELSE IF ~got.ok THEN acc
     ELSE IF (~dec.ok) \/ (~nbt.ok) THEN ChunkError(seen, idx, got.blob)
     ELSE IF rm.changed
       THEN [seen EXCEPT !.updated = (idx :> [blob |-> Compress(rm.tree, comp),
                                              changed |-> TRUE]) @@ seen.updated,
                         !.changed = seen.changed + 1,
                         !.entries_changed = seen.entries_changed + rm.entries]
     ELSE seen

RECURSIVE ChunkLoop(_, _, _)
ChunkLoop(original, a, n) ==
  IF n = 0 THEN LoopInit
  ELSE LoopStep(original, a, ChunkLoop(original, a, n - 1), n - 1)

\* The returned tuple (name and debug samples left out).
Report(acc) ==
  [processed |-> acc.processed, changed |-> acc.changed,
   entries_changed |-> acc.entries_changed]

NoReport == [processed |-> 0, changed |-> 0, entries_changed |-> 0]

\* Faulty variant: dry_run is ignored.
ReturnsEarlyMut(acc, a) == acc.changed = 0

\* Faulty variant: a call that changed nothing goes on to rewrite the file.
ReturnsEarlyDryOnly(acc, a) == a.dry_run

\* Line 722: nothing is written when no chunk changed or on dry_run.
ReturnsEarly(acc, a) == acc.changed = 0 \/ a.dry_run

\* -------------------------------------------------- the job controller
\* A file name is the sequence of its parts between dots: r.0.0.mca is
\* <<"r", "0", "0", "mca">>.  Path.suffix is the last part.
Suffix(path) == path[Len(path)]

\* Path.with_suffix(path.suffix + ext): the last part is replaced by itself
\* followed by ext.
WithSuffix(path, ext) == SubSeq(path, 1, Len(path) - 1) \o <<Suffix(path), ext>>

\* Lines 731 and 734.
BackupPath(path) == WithSuffix(path, "bak")
TmpPath(path) == WithSuffix(path, "tmp")

\* Faulty variant: the pattern is r.* and matches backups and temp files.
GlobMatchesMut(name) == Len(name) >= 2 /\ name[1] = "r"

\* Line 811: the pattern r.*.*.mca; a star also matches text with dots.
GlobMatches(name) ==
  /\ Len(name) >= 4
  /\ name[1] = "r"
  /\ name[Len(name)] = "mca"

\* The order of sorted() on the names at hand.
Rank(part) ==
  CASE part = "0" -> 0
    [] part = "1" -> 1
    [] part = "bak" -> 2
    [] part = "dat" -> 3
    [] part = "level" -> 4
    [] part = "mca" -> 5
    [] part = "r" -> 6
    [] OTHER -> 7

RECURSIVE LexLess(_, _, _)
LexLess(a, b, k) ==
  IF k > Len(a) THEN k <= Len(b)
  ELSE IF k > Len(b) THEN FALSE
  ELSE IF a[k] = b[k] THEN LexLess(a, b, k + 1)
  ELSE Rank(a[k]) < Rank(b[k])

RECURSIVE Sorted(_)
Sorted(S) ==
  IF S = {} THEN <<>>
  ELSE LET m == CHOOSE x \in S : \A y \in S : x = y \/ LexLess(x, y, 1)
       IN <<m>> \o Sorted(S \ {m})

\* Line 811: region_files = sorted(region_dir.glob("r.*.*.mca")).
RegionFiles(listing) == Sorted({name \in listing : GlobMatches(name)})

\* The paths a worker reads or tests, and those it writes (lines 650,
\* 731-736).
ReadPaths(path) == {path, BackupPath(path)}
WritePaths(path) == {path, BackupPath(path), TmpPath(path)}

\* What the future of a region holds once its worker is done: the raised
\* exception ("none" when it returned) and the returned counters.
Outcome(exc, rep) == [exc |-> exc, report |-> rep]

\* _process_region_file as the controller sees it: the exception it raises
\* or the tuple it returns.
WorkerOutcome(f, a) ==
  LET acc == ChunkLoop(f.content, a, NumSlots)
      rb == RebuildRegion(f.content, acc.updated, 0)
  IN IF ~f.readable THEN Outcome("OSError", NoReport)
     ELSE IF ~HeaderReadable(f.content) THEN Outcome("IndexError", NoReport)
     ELSE IF ReturnsEarly(acc, a) THEN Outcome("none", Report(acc))
     ELSE IF ~rb.ok THEN Outcome("ValueError", NoReport)
     ELSE Outcome("none", Report(acc))

Future(state, outcome) == [state |-> state, outcome |-> outcome]
PendingFuture == Future("pending", Outcome("none", NoReport))

\* Lines 845-849: the counters of run().
NoTotals ==
  [regions_processed |-> 0, regions_changed |-> 0, chunks_processed |-> 0,
   chunks_changed |-> 0, palette_entries_changed |-> 0]

\* Faulty variant: chunks_changed is assigned, not added to.
AddReportMut(t, rep) ==
  [regions_processed |-> t.regions_processed + 1,
   regions_changed |-> t.regions_changed + (IF rep.changed # 0 THEN 1 ELSE 0),
   chunks_processed |-> t.chunks_processed + rep.processed,
   chunks_changed |-> rep.changed,
   palette_entries_changed |-> t.palette_entries_changed + rep.entries_changed]

\* Lines 876-882.
AddReport(t, rep) ==
  [regions_processed |-> t.regions_processed + 1,
   regions_changed |-> t.regions_changed + (IF rep.changed # 0 THEN 1 ELSE 0),
   chunks_processed |-> t.chunks_processed + rep.processed,
   chunks_changed |-> t.chunks_changed + rep.changed,
   palette_entries_changed |-> t.palette_entries_changed + rep.entries_changed]

\* A line passed to log(), or written to stderr: its leading text and the
\* numbers it carries.
Line(kind, vals) == [kind |-> kind, vals |-> vals]

\* Lines 895-899.
ProgressLine(t, total) ==
  Line("Progress", <<t.regions_processed, total, t.chunks_processed,
                     t.chunks_changed, t.palette_entries_changed>>)

\* Lines 905-911.
SummaryLine(t) ==
  Line("Summary", <<t.regions_processed, t.regions_changed, t.chunks_processed,
                    t.chunks_changed, t.palette_entries_changed>>)

\* Lines 829-839.
SetupLines(e) ==
  << Line("Region folder", <<>>), Line("Regions", <<Len(e.files)>>),
     Line("Mapping entries", <<>>), Line("Y filter", <<>>),
     Line("Workers", <<e.processes>>), Line("Backups", <<>>) >>

\* An exception on its way out of run().
Exc(type, msg) == [type |-> type, msg |-> msg]
NoExc == Exc("none", "")

\* The environment and command line of a job.
Env(dir, ini, files, processes, dry_run) ==
  [region_dir_exists |-> dir, mapping_ini |-> ini, files |-> files,
   processes |-> processes, dry_run |-> dry_run]

\* ------------------------------------------------------------ probe mode
\* The prefix after strip(): blank, "ns:" (name = ""), or a whole id.
Prefix(blank, ns, name) == [blank |-> blank, ns |-> ns, name |-> name]

\* s.startswith(pref) for a normalized id s.
StartsWith(id, pref) == id.ns = pref.ns /\ (pref.name = "" \/ id.name = pref.name)

\* A region file on disk: read_bytes() raises when it is not readable.
RegionFile(readable, content) == [readable |-> readable, content |-> content]

\* Lines 554-561: the normalized entries of a palette that start with pref.
Hits(palette, pref) ==
  SelectSeq([i \in 1 .. Len(palette) |-> Normalize(palette[i])],
            LAMBDA x : StartsWith(x, pref))

\* Line 563: list(dict.fromkeys(hits)).
RECURSIVE Dedup(_, _)
Dedup(q, n) ==
  IF n = 0 THEN <<>>
  ELSE LET d == Dedup(q, n - 1)
       IN IF \E i \in 1 .. Len(d) : d[i] = q[n] THEN d ELSE Append(d, q[n])

\* Lines 565-566: uniq_hits[:20].
LoggedHits(palette, pref) ==
  LET u == Dedup(Hits(palette, pref), Len(Hits(palette, pref)))
  IN SubSeq(u, 1, IF Len(u) < 20 THEN Len(u) ELSE 20)

\* Lines 546-562: the sections of a chunk whose palette has a hit.
HitSections(root, pref, yr) ==
  IF ~HasSections(root) THEN {}
  ELSE {k \in 1 .. Len(root.sections) :
          /\ SectionRemapped(root.sections[k], yr)
          /\ Len(Hits(root.sections[k].palette, pref)) > 0}

FoundLine(rf, idx, sy, hits) ==
  [kind |-> "FOUND", file |-> rf, chunk_idx |-> idx, sectionY |-> sy, hits |-> hits,
   regions |-> 0, chunks |-> 0]

NotFoundLine(regions, chunks) ==
  [kind |-> "Not found", file |-> 0, chunk_idx |-> 0, sectionY |-> NoY, hits |-> <<>>,
   regions |-> regions, chunks |-> chunks]

EmptyPrefixLine ==
  [kind |-> "Probe prefix is empty.", file |-> 0, chunk_idx |-> 0, sectionY |-> NoY,
   hits |-> <<>>, regions |-> 0, chunks |-> 0]

\* ----------------------------------------------------------- input sets
Yellowstone == Id("terralith", "yellowstone")
UYellowstone == Id("universal_terralith", "yellowstone")
Desert == Id("terralith", "desert")
Badlands == Id("minecraft", "badlands")
Plains == Id("minecraft", "plains")
UPlains == Id("universal_minecraft", "plains")

\* Chunk trees: a current-format chunk with two sections (a blob of two
\* sectors), and a legacy one whose blob sits just above a sector boundary
\* and drops to one sector when yellowstone becomes badlands.
TreeA ==
  Root("sections",
       << Section(SomeY(4), "biomes", "palette", <<Yellowstone, UPlains>>, "blocks0"),
          Section(SomeY(8), "biomes", "palette", <<UYellowstone, Desert>>, "blocks1") >>,
       5000)

TreeB ==
  Root("Level.Sections",
       << Section(NoY, "Biomes", "Palette", <<Yellowstone, Badlands>>, "blocks0") >>,
       4039)

HugeTree == Root("none", <<>>, MAX_SECTORS * SECTOR_BYTES)

\* A chunk of vanilla biomes only, and a chunk that keeps its list under the
\* lowercase container with the capitalised list key.
TreeV ==
  Root("Sections",
       << Section(SomeY(4), "Biomes", "palette", <<Plains, Badlands, Plains>>, "blocks0") >>,
       100)

TreeS ==
  Root("sections",
       << Section(SomeY(8), "biomes", "Palette", <<Yellowstone>>, "blocks0") >>,
       100)

\* An uncompressed chunk whose blob fills 255 sectors to the last byte: two
\* bytes more and it needs 256.
TreeF ==
  Root("sections",
       << Section(SomeY(4), "biomes", "palette", <<Desert>>, "blocks0") >>,
       MAX_SECTORS * SECTOR_BYTES - 23)

\* "unreadable": a slot whose sector holds zero bytes; "beyond": a slot that
\* points past the end of the file.
SlotKinds ==
  {"absent", "gzip", "zlib", "badtag", "unreadable", "beyond", "huge", "full"}

KindBlob(k) ==
  CASE k = "gzip" -> Blob(1, Payload("gzip", TRUE, TreeA))
    [] k = "zlib" -> Blob(2, Payload("zlib", TRUE, TreeB))
    [] k = "badtag" -> Blob(4, Payload("zlib", TRUE, TreeA))
    [] k = "huge" -> Blob(2, Payload("junk", FALSE, HugeTree))
    [] k = "full" -> Blob(3, Payload("none", TRUE, TreeF))
    [] k = "vanilla" -> Blob(2, Payload("zlib", TRUE, TreeV))
    [] k = "shape" -> Blob(2, Payload("zlib", TRUE, TreeS))
    [] OTHER -> NoBlob

\* Input layout: slots stored in descending sector order with holes between.
InOff(i) == 2 + InStride * (NumSlots - 1 - i)
InLen == (2 + InStride * NumSlots) * SECTOR_BYTES
InTs(i) == 7 + i

MkRegion(kinds) ==
  LET stored == {i \in Slots : kinds[i] \notin {"absent", "unreadable", "beyond"}}
      cnt(i) == IF SectorsNeeded(KindBlob(kinds[i])) > 255 THEN 255
                ELSE SectorsNeeded(KindBlob(kinds[i]))
  IN Region(InLen,
            [i \in Slots |->
               IF kinds[i] = "absent" THEN Loc(0, 0)
               ELSE IF kinds[i] = "unreadable" THEN Loc(InOff(i), 1)
               ELSE IF kinds[i] = "beyond" THEN Loc(InLen \div SECTOR_BYTES + i, 1)
               ELSE Loc(InOff(i), cnt(i))],
            [i \in Slots |-> InTs(i)],
            [o \in {InOff(i) : i \in stored} |->
               KindBlob(kinds[CHOOSE i \in stored : InOff(i) = o])])

TruncatedRegion == [EmptyRegion EXCEPT !.len = 100]

InputRegions == {MkRegion(kinds) : kinds \in [Slots -> SlotKinds]} \cup {TruncatedRegion}

MSimple == { <<Yellowstone, Badlands>>, <<Plains, Plains>> }
MChain == { <<Yellowstone, Badlands>>, <<Badlands, Plains>> }
Mappings == {MSimple, MChain}
Fallbacks == {None, Some(Plains)}
YRanges == {NoRange, Range(100, 200)}

\* A mapping none of whose keys occurs in the input chunks.
MUnrelated == { <<Id("terralith", "cave"), Plains>> }

\* A mapping whose target is two bytes longer than its key.
MGrow == { <<Desert, Badlands>> }

ArgSets ==
  {Args(m, f, yr, dry, mb) :
     m \in Mappings, f \in Fallbacks, yr \in YRanges,
     dry \in BOOLEAN, mb \in BOOLEAN}
  \cup {Args(m, None, NoRange, dry, mb) :
          m \in {MUnrelated, MGrow}, dry \in BOOLEAN, mb \in BOOLEAN}

\* Inputs of probe mode: region files with a chunk in the first and in the
\* last slot, a file shorter than its header, and a file that cannot be read.
ProbeLayouts ==
  { <<"vanilla", "gzip">>, <<"gzip", "vanilla">>, <<"badtag", "gzip">>,
    <<"vanilla", "vanilla">>, <<"absent", "shape">>, <<"unreadable", "vanilla">> }

TwoChunkRegion(ab) ==
  MkRegion([i \in Slots |-> IF i = 0 THEN ab[1]
                            ELSE IF i = NumSlots - 1 THEN ab[2]
                            ELSE "absent"])

ProbeFileSet ==
  {RegionFile(TRUE, TwoChunkRegion(ab)) : ab \in ProbeLayouts}
  \cup {RegionFile(TRUE, TruncatedRegion), RegionFile(FALSE, EmptyRegion)}

ProbePrefixes ==
  {Prefix(TRUE, "", ""), Prefix(FALSE, "terralith", ""), Prefix(FALSE, "minecraft", "plains")}

ProbeInputs ==
  {[files |-> fs, prefix |-> p, yr |-> yr, max_regions |-> mr, max_chunks |-> mc] :
     fs \in [1 .. NumProbeFiles -> ProbeFileSet], p \in ProbePrefixes,
     yr \in YRanges, mr \in {0, 1}, mc \in {0, 1, 3}}

\* The names in the region folder of a job with n region files: n names that
\* match the pattern, among them names built on the backup and the temp name
\* of another, next to files left by earlier jobs and files of other kinds.
NameStock ==
  << <<"r", "0", "0", "mca">>,
     <<"r", "0", "0", "mca", "bak", "mca">>,
     <<"r", "0", "0", "mca", "tmp", "mca">>,
     <<"r", "0", "1", "mca">> >>

Listing(n) ==
  {NameStock[k] : k \in 1 .. n}
  \cup { <<"r", "0", "0", "mca", "bak">>, <<"r", "0", "0", "mca", "tmp">>,
         <<"r", "0", "mca">>, <<"level", "dat">> }

\* Inputs of a job: region files that change, that do not, that are shorter
\* than the header, that hold a chunk too large to rebuild, that cannot be read.
JobFileSet ==
  {RegionFile(TRUE, TwoChunkRegion(<<"gzip", "gzip">>)),
   RegionFile(TRUE, TwoChunkRegion(<<"vanilla", "vanilla">>)),
   RegionFile(TRUE, TwoChunkRegion(<<"gzip", "huge">>)),
   RegionFile(TRUE, TruncatedRegion),
   RegionFile(FALSE, EmptyRegion)}

JobEnvs ==
  {Env(TRUE, "", fs, p, dry) :
     fs \in [1 .. NumRegions -> JobFileSet], p \in {1, 2}, dry \in BOOLEAN}
  \cup {Env(dir, ini, fs, 1, FALSE) :
          dir \in BOOLEAN, ini \in {"", "missing", "present"},
          fs \in {<<>>, <<RegionFile(TRUE, TwoChunkRegion(<<"gzip", "gzip">>))>>}}

\* The arguments run() passes to every worker (lines 859-871).
JobArgs(e) == Args(MSimple, None, NoRange, e.dry_run, TRUE)

\* Inputs of the INI loader: every file of up to MaxLines lines, and short
\* files that are missing, malformed or without a [mapping] section.
IniKeys == {Yellowstone, UYellowstone, Desert}
IniValues == {Some(Badlands), Some(Id("universal_minecraft", "mountains")), None}
IniLines == {IniLine(k, v) : k \in IniKeys, v \in IniValues}

RECURSIVE SeqsUpTo(_, _)
SeqsUpTo(S, n) ==
  IF n = 0 THEN {<<>>}
  ELSE LET shorter == SeqsUpTo(S, n - 1)
       IN shorter \cup {Append(q, x) : q \in {t \in shorter : Len(t) = n - 1}, x \in S}

IniFiles ==
  {IniFile(TRUE, TRUE, TRUE, l) : l \in SeqsUpTo(IniLines, MaxLines)}
  \cup {IniFile(e, w, sec, l) :
          e \in BOOLEAN, w \in BOOLEAN, sec \in BOOLEAN, l \in SeqsUpTo(IniLines, 1)}

\* Inputs of a single remap call: every place the sections list and the
\* palette can sit, sections below, inside, touching and above the Y range.
RootPaths == {"sections", "Sections", "Level.sections", "Level.Sections", "none"}
ContainerKeys == {"biomes", "Biomes", "none"}
PaletteKeys == {"palette", "Palette"}
SectionYs == {NoY, SomeY(-1), SomeY(4), SomeY(8)}

RemapTrees ==
  {Root(p,
        << Section(y, ck, pk, <<Yellowstone, UPlains, Desert>>, "blocks0"),
           Section(SomeY(8), "biomes", "palette", <<UYellowstone, Badlands>>, "blocks1") >>,
        5000) :
     p \in RootPaths, y \in SectionYs, ck \in ContainerKeys, pk \in PaletteKeys}

RemapYRanges ==
  {NoRange, YRangeArg(0, 63), YRangeArg(0, 64), YRangeArg(79, 100),
   YRangeArg(80, 100), YRangeArg(200, 100), YRangeArg(-16, 143)}

RemapInputs ==
  {[root |-> t, M |-> m, F |-> f, yr |-> yr] :
     t \in RemapTrees, m \in Mappings \cup {MUnrelated}, f \in Fallbacks,
     yr \in RemapYRanges}

\* Inputs of the repeated runs: regions whose chunks are all stored, and
\* calls without fallback and Y range.
RerunRegions == {MkRegion(kinds) : kinds \in [Slots -> {"gzip", "zlib", "badtag"}]}
RerunArgSets ==
  {Args(m, None, NoRange, dry, mb) :
     m \in Mappings, dry \in BOOLEAN, mb \in BOOLEAN}

\* ---------------------------------------------------------------- state
\* A file on disk: absent, or present with (complete) or without
\* (a write_bytes cut short) all of the bytes `content`.
File(exists, complete, content) ==
  [exists |-> exists, complete |-> complete, content |-> content]
NoFile == File(FALSE, FALSE, EmptyRegion)
FullFile(r) == File(TRUE, TRUE, r)
PartialFile(r) == File(TRUE, FALSE, r)

VARIABLES
  mca,        \* <name>.mca
  bak,        \* <name>.mca.bak
  tmp,        \* <name>.mca.tmp
  pc,         \* position of the worker in _process_region_file
  args,       \* arguments of the current call
  original,   \* local: bytes read from the region file
  loop,       \* local: counters and updated_blobs after the chunk loop
  rebuilt,    \* local: result of _rebuild_region
  now_ts,     \* local of _rebuild_region: int(time.time())
  report,     \* returned tuple
  clock,      \* wall clock, in ticks
  started,    \* run(): started = time.time()
  runs,       \* calls made so far
  atStart,    \* the three files as they were when the call began
  crashedAt,  \* where the process was killed, "none" if it was not
  pristine    \* the region file as it was before the first call

workerVars == <<mca, bak, tmp, pc, args, original, loop, rebuilt, now_ts, report,
                clock, started, runs, atStart, crashedAt, pristine>>

\* One call of _remap_chunk_biome_palettes on a parsed chunk.
VARIABLES
  rin,        \* the arguments: root, mapping, fallback, Y range
  rout,       \* the returned (changed, entries_changed) and the tree after
  rpc         \* "off", "ready" or "done"

remapVars == <<rin, rout, rpc>>

\* One call of _load_mapping_from_ini.
VARIABLES
  ini,        \* the INI file at the path
  loaded,     \* the returned mapping
  ipc         \* "off", "ready", "done" (from a file) or "done_text"

iniVars == <<ini, loaded, ipc>>

\* One call of _probe_for_biome_prefix.
VARIABLES
  pin,              \* the arguments: region_files, prefix, Y range, budgets
  ppc,              \* position in the probe
  rf,               \* loop variable: position of the region file at hand
  ptr,              \* loop variable: slot index within the region
  regions_scanned,
  chunks_scanned,
  prc,              \* the returned exit code, -1 before the return
  plog              \* lines passed to log()

probeVars == <<pin, ppc, rf, ptr, regions_scanned, chunks_scanned, prc, plog>>

\* One job: run() called from the command line or from the GUI.
VARIABLES
  caller,     \* "cli": main(); "gui": App._start and its worker thread
  env,        \* region folder, mapping file, region files, options
  jpc,        \* position of the controller
  exc,        \* the exception leaving run(), NoExc if none
  futures,    \* one future per region file, in submission order
  collected,  \* the futures whose result the loop on line 875 has taken
  totals,     \* regions_processed ... palette_entries_changed
  log,        \* the lines the user is shown through log()
  stderr,     \* what the interpreter writes to stderr
  jrc,        \* the value run() returned, -1 if it has not
  cancelled   \* an interrupt signal has reached the controller

jobVars == <<caller, env, jpc, exc, futures, collected, totals, log, stderr, jrc,
             cancelled>>

\* The GUI: the Run button, the worker threads and the Tk event queue.
VARIABLES
  threads,      \* the worker threads started so far; _worker_thread is the last
  is_running,   \* App._is_running
  start_btn,    \* state of the Run button: "normal" or "disabled"
  callbacks,    \* _set_running(False) calls queued with after(0, ...)
  output,       \* lines bound for the output box
  clicks        \* clicks on Run so far

guiVars == <<threads, is_running, start_btn, callbacks, output, clicks>>

nonWorkerVars == <<remapVars, iniVars, probeVars, jobVars, guiVars>>

vars == <<workerVars, nonWorkerVars>>

NoRemapIn == [root |-> EmptyTree, M |-> {}, F |-> None, yr |-> NoRange]
NoRemapOut == [tree |-> EmptyTree, changed |-> FALSE, entries |-> 0]

RemapIdle ==
  /\ rin = NoRemapIn
  /\ rout = NoRemapOut
  /\ rpc = "off"

IniIdle ==
  /\ ini = IniFile(FALSE, FALSE, FALSE, <<>>)
  /\ loaded = {}
  /\ ipc = "off"

NoProbeIn ==
  [files |-> <<>>, prefix |-> Prefix(TRUE, "", ""), yr |-> NoRange,
   max_regions |-> 0, max_chunks |-> 0]

ProbeLocals ==
  /\ rf = 0
  /\ ptr = 0
  /\ regions_scanned = 0
  /\ chunks_scanned = 0
  /\ prc = -1
  /\ plog = <<>>

ProbeIdle ==
  /\ pin = NoProbeIn
  /\ ppc = "off"
  /\ ProbeLocals

JobLocals ==
  /\ exc = NoExc
  /\ futures = <<>>
  /\ collected = {}
  /\ totals = NoTotals
  /\ log = <<>>
  /\ stderr = <<>>
  /\ jrc = -1
  /\ cancelled = FALSE

JobIdle ==
  /\ caller = "cli"
  /\ env = Env(FALSE, "", <<>>, 1, FALSE)
  /\ jpc = "off"
  /\ JobLocals

GuiIdle ==
  /\ threads = <<>>
  /\ is_running = FALSE
  /\ start_btn = "none"
  /\ callbacks = 0
  /\ output = <<>>
  /\ clicks = 0

NonWorkerIdle == RemapIdle /\ IniIdle /\ ProbeIdle /\ JobIdle /\ GuiIdle

NoArgs == Args({}, None, NoRange, TRUE, FALSE)
NoSnapshot == [mca |-> NoFile, bak |-> NoFile, tmp |-> NoFile]
InitFiles(regions) ==
  /\ mca \in {FullFile(r) : r \in regions}
  /\ bak = NoFile
  /\ tmp = NoFile
  /\ pc = "idle"
  /\ args = NoArgs
  /\ original = EmptyRegion
  /\ loop = LoopInit
  /\ rebuilt = EmptyRegion
  /\ now_ts = 0
  /\ report = NoReport
  /\ clock = ClockStart
  /\ started = 0
  /\ runs = 0
  /\ atStart = NoSnapshot
  /\ crashedAt = "none"
  /\ pristine = mca
  /\ NonWorkerIdle

\* One call of the worker on any input region.
Init == InitFiles(InputRegions)

\* Repeated runs over the same region file.
InitRuns == InitFiles(RerunRegions)

\* run() records the start time and hands the region to a worker.
Start(argSets, limit) ==
  /\ pc = "idle"
  /\ runs < limit
  /\ \E a \in argSets : args' = a
  /\ started' = clock
  /\ runs' = runs + 1
  /\ atStart' = [mca |-> mca, bak |-> bak, tmp |-> tmp]
  /\ pc' = "process"
  /\ UNCHANGED <<mca, bak, tmp, original, loop, rebuilt, now_ts, report, clock,
                 crashedAt>>
  /\ UNCHANGED <<pristine, nonWorkerVars>>

StartCall == Start(ArgSets, 1)

StartRun == Start(RerunArgSets, MaxRuns)

\* Lines 649-725: read the file, run the chunk loop, return early when
\* nothing changed or on dry_run.
ProcessChunks ==
  /\ pc = "process"
  /\ IF ~HeaderReadable(mca.content)
     THEN /\ pc' = "raised"
          /\ UNCHANGED <<original, loop, report>>
     ELSE LET acc == ChunkLoop(mca.content, args, NumSlots)
          IN /\ original' = mca.content
             /\ loop' = acc
             /\ IF ReturnsEarly(acc, args)
                THEN /\ report' = Report(acc)
                     /\ pc' = "returned"
                ELSE /\ pc' = "rebuild"
                     /\ UNCHANGED report
  /\ UNCHANGED <<mca, bak, tmp, args, rebuilt, now_ts, clock, started, runs,
                 atStart, crashedAt>>
  /\ UNCHANGED <<pristine, nonWorkerVars>>

\* Line 727: rebuilt = _rebuild_region(original, updated_blobs).
Rebuild ==
  /\ pc = "rebuild"
  /\ LET t == clock \div TicksPerSecond
         rb == RebuildRegion(original, loop.updated, t)
     IN /\ now_ts' = t
        /\ IF rb.ok
           THEN /\ rebuilt' = rb.out
                /\ pc' = "backup"
           ELSE /\ pc' = "raised"
                /\ UNCHANGED rebuilt
  /\ UNCHANGED <<mca, bak, tmp, args, original, loop, report, clock, started,
                 runs, atStart, crashedAt>>
  /\ UNCHANGED <<pristine, nonWorkerVars>>

\* Faulty variant: the backup is written whether or not one exists.
BackupOpenMut ==
  /\ pc = "backup"
  /\ IF args.make_backup
     THEN /\ bak' = PartialFile(original)
          /\ pc' = "bak_write"
     ELSE /\ pc' = "tmp_open"
          /\ UNCHANGED bak
  /\ UNCHANGED <<mca, tmp, args, original, loop, rebuilt, now_ts, report, clock,
                 started, runs, atStart, crashedAt>>
  /\ UNCHANGED <<pristine, nonWorkerVars>>

\* Lines 730-733: the backup is opened for writing only if none exists.
BackupOpen ==
  /\ pc = "backup"
  /\ IF args.make_backup /\ ~bak.exists
     THEN /\ bak' = PartialFile(original)
          /\ pc' = "bak_write"
     ELSE /\ pc' = "tmp_open"
          /\ UNCHANGED bak
  /\ UNCHANGED <<mca, tmp, args, original, loop, rebuilt, now_ts, report, clock,
                 started, runs, atStart, crashedAt>>
  /\ UNCHANGED <<pristine, nonWorkerVars>>

\* Line 733: backup_path.write_bytes(original) completes.
BackupWritten ==
  /\ pc = "bak_write"
  /\ bak' = FullFile(original)
  /\ pc' = "tmp_open"
  /\ UNCHANGED <<mca, tmp, args, original, loop, rebuilt, now_ts, report, clock,
                 started, runs, atStart, crashedAt>>
  /\ UNCHANGED <<pristine, nonWorkerVars>>

\* Faulty variant: the rebuilt bytes are written over the region file itself.
TmpOpenMut ==
  /\ pc = "tmp_open"
  /\ mca' = PartialFile(rebuilt)
  /\ tmp' = PartialFile(rebuilt)
  /\ pc' = "tmp_write"
  /\ UNCHANGED <<bak, args, original, loop, rebuilt, now_ts, report, clock,
                 started, runs, atStart, crashedAt>>
  /\ UNCHANGED <<pristine, nonWorkerVars>>

\* Line 735: tmp.write_bytes(rebuilt) creates or truncates the temp file.
TmpOpen ==
  /\ pc = "tmp_open"
  /\ tmp' = PartialFile(rebuilt)
  /\ pc' = "tmp_write"
  /\ UNCHANGED <<mca, bak, args, original, loop, rebuilt, now_ts, report, clock,
                 started, runs, atStart, crashedAt>>
  /\ UNCHANGED <<pristine, nonWorkerVars>>

\* Line 735: the write completes.
TmpWritten ==
  /\ pc = "tmp_write"
  /\ tmp' = FullFile(rebuilt)
  /\ pc' = "replace"
  /\ UNCHANGED <<mca, bak, args, original, loop, rebuilt, now_ts, report, clock,
                 started, runs, atStart, crashedAt>>
  /\ UNCHANGED <<pristine, nonWorkerVars>>

\* Lines 736-738: tmp.replace(path) renames atomically; the call returns.
Replace ==
  /\ pc = "replace"
  /\ mca' = tmp
  /\ tmp' = NoFile
  /\ report' = Report(loop)
  /\ pc' = "returned"
  /\ UNCHANGED <<bak, args, original, loop, rebuilt, now_ts, clock, started,
                 runs, atStart, crashedAt>>
  /\ UNCHANGED <<pristine, nonWorkerVars>>

\* The process is killed at any point of the call.
Crash ==
  /\ pc \notin {"idle", "returned", "raised", "crashed"}
  /\ crashedAt' = pc
  /\ pc' = "crashed"
  /\ UNCHANGED <<mca, bak, tmp, args, original, loop, rebuilt, now_ts, report,
                 clock, started, runs, atStart>>
  /\ UNCHANGED <<pristine, nonWorkerVars>>

\* The call is over (it returned, raised, or its process died): nothing of
\* it is left but the files.
Finish ==
  /\ pc \in {"returned", "raised", "crashed"}
  /\ pc' = "idle"
  /\ args' = NoArgs
  /\ original' = EmptyRegion
  /\ loop' = LoopInit
  /\ rebuilt' = EmptyRegion
  /\ now_ts' = 0
  /\ report' = NoReport
  /\ started' = 0
  /\ atStart' = NoSnapshot
  /\ crashedAt' = "none"
  /\ UNCHANGED <<mca, bak, tmp, clock, runs>>
  /\ UNCHANGED <<pristine, nonWorkerVars>>

\* Wall-clock time passes.  The clock is read at the start of the job and
\* in _rebuild_region, so ticks elsewhere are not distinguished.
Tick ==
  /\ clock < MaxClock
  /\ pc \in {"idle", "rebuild"}
  /\ clock' = clock + 1
  /\ UNCHANGED <<mca, bak, tmp, pc, args, original, loop, rebuilt, now_ts,
                 report, started, runs, atStart, crashedAt>>
  /\ UNCHANGED <<pristine, nonWorkerVars>>

Next ==
  \/ StartCall
  \/ ProcessChunks
  \/ Rebuild
  \/ BackupOpen
  \/ BackupWritten
  \/ TmpOpen
  \/ TmpWritten
  \/ Replace
  \/ Finish
  \/ Crash
  \/ Tick

Spec == Init /\ [][Next]_vars

NextRuns ==
  \/ StartRun
  \/ ProcessChunks
  \/ Rebuild
  \/ BackupOpen
  \/ BackupWritten
  \/ TmpOpen
  \/ TmpWritten
  \/ Replace
  \/ Finish
  \/ Crash
  \/ Tick

SpecRuns == InitRuns /\ [][NextRuns]_vars

\* Repeated runs that all ask for a backup.
StartBackupRun == Start({a \in RerunArgSets : a.make_backup}, MaxRuns)

NextBackups ==
  \/ StartBackupRun
  \/ ProcessChunks
  \/ Rebuild
  \/ BackupOpen
  \/ BackupWritten
  \/ TmpOpen
  \/ TmpWritten
  \/ Replace
  \/ Finish
  \/ Crash
  \/ Tick

SpecBackups == InitRuns /\ [][NextBackups]_vars

\* The worker is not part of the specification at hand.
WorkerOff ==
  /\ mca = NoFile
  /\ bak = NoFile
  /\ tmp = NoFile
  /\ pc = "off"
  /\ args = NoArgs
  /\ original = EmptyRegion
  /\ loop = LoopInit
  /\ rebuilt = EmptyRegion
  /\ now_ts = 0
  /\ report = NoReport
  /\ clock = ClockStart
  /\ started = 0
  /\ runs = 0
  /\ atStart = NoSnapshot
  /\ crashedAt = "none"
  /\ pristine = NoFile

\* ------------------------------------------ one call of the remap step
InitRemap ==
  /\ WorkerOff
  /\ GuiIdle
  /\ IniIdle
  /\ ProbeIdle
  /\ JobIdle
  /\ rin \in RemapInputs
  /\ rout = NoRemapOut
  /\ rpc = "ready"

\* was_changed, ec = _remap_chunk_biome_palettes(root, mapping, y_min, y_max, F)
RemapCall ==
  /\ rpc = "ready"
  /\ rout' = RemapChunk(rin.root, rin.M, rin.F, rin.yr)
  /\ rpc' = "done"
  /\ UNCHANGED <<rin, workerVars, iniVars, probeVars, jobVars, guiVars>>

NextRemap == RemapCall

SpecRemap == InitRemap /\ [][NextRemap]_vars

\* ------------------------------------------- one call of the INI loader
InitIni ==
  /\ WorkerOff
  /\ GuiIdle
  /\ RemapIdle
  /\ ProbeIdle
  /\ JobIdle
  /\ ini \in IniFiles
  /\ loaded = {}
  /\ ipc = "ready"

\* mapping = _load_mapping_from_ini(mapping_path)
LoadIni ==
  /\ ipc = "ready"
  /\ loaded' = LoadMappingFromIni(ini)
  /\ ipc' = "done"
  /\ UNCHANGED <<ini, workerVars, remapVars, probeVars, jobVars, guiVars>>

\* mapping = _load_mapping_from_ini_text(text), on the text of the file.
LoadIniText ==
  /\ ipc = "ready"
  /\ loaded' = LoadMappingFromIniText(ini)
  /\ ipc' = "done_text"
  /\ UNCHANGED <<ini, workerVars, remapVars, probeVars, jobVars, guiVars>>

NextIni ==
  \/ LoadIni
  \/ LoadIniText

SpecIni == InitIni /\ [][NextIni]_vars

\* ------------------------------------------------ one run of probe mode
InitProbe ==
  /\ WorkerOff
  /\ GuiIdle
  /\ RemapIdle
  /\ IniIdle
  /\ JobIdle
  /\ pin \in ProbeInputs
  /\ ppc = "ready"
  /\ ProbeLocals

\* Line 572: the budgets or the files ran out.
ProbeNotFound ==
  /\ plog' = Append(plog, NotFoundLine(regions_scanned, chunks_scanned))
  /\ prc' = 2
  /\ ppc' = "returned"
  /\ UNCHANGED <<rf, ptr, regions_scanned, chunks_scanned>>

\* Lines 511-517.
ProbeStart ==
  /\ ppc = "ready"
  /\ IF pin.prefix.blank
     THEN /\ plog' = Append(plog, EmptyPrefixLine)
          /\ prc' = 2
          /\ ppc' = "returned"
          /\ UNCHANGED rf
     ELSE /\ rf' = 1
          /\ ppc' = "regions"
          /\ UNCHANGED <<plog, prc>>
  /\ UNCHANGED <<pin, ptr, regions_scanned, chunks_scanned>>
  /\ UNCHANGED <<workerVars, remapVars, iniVars, jobVars, guiVars>>

\* Faulty variant: the region budget is tested with > instead of >=.
ProbeNextRegionMut ==
  /\ ppc = "regions"
  /\ IF rf > Len(pin.files)
        \/ (pin.max_regions > 0 /\ regions_scanned > pin.max_regions)
     THEN ProbeNotFound
     ELSE /\ regions_scanned' = regions_scanned + 1
          /\ IF ~pin.files[rf].readable
             THEN /\ rf' = rf + 1
                  /\ UNCHANGED <<ppc, ptr>>
             ELSE IF ~HeaderReadable(pin.files[rf].content)
             THEN /\ ppc' = "raised"
                  /\ UNCHANGED <<rf, ptr>>
             ELSE /\ ppc' = "chunks"
                  /\ ptr' = 0
                  /\ UNCHANGED rf
          /\ UNCHANGED <<chunks_scanned, prc, plog>>
  /\ UNCHANGED pin
  /\ UNCHANGED <<workerVars, remapVars, iniVars, jobVars, guiVars>>

\* Lines 519-528: the head of the loop over region files.
ProbeNextRegion ==
  /\ ppc = "regions"
  /\ IF rf > Len(pin.files)
        \/ (pin.max_regions > 0 /\ regions_scanned >= pin.max_regions)
     THEN ProbeNotFound
     ELSE /\ regions_scanned' = regions_scanned + 1
          /\ IF ~pin.files[rf].readable
             THEN /\ rf' = rf + 1
                  /\ UNCHANGED <<ppc, ptr>>
             ELSE IF ~HeaderReadable(pin.files[rf].content)
             THEN /\ ppc' = "raised"
                  /\ UNCHANGED <<rf, ptr>>
             ELSE /\ ppc' = "chunks"
                  /\ ptr' = 0
                  /\ UNCHANGED rf
          /\ UNCHANGED <<chunks_scanned, prc, plog>>
  /\ UNCHANGED pin
  /\ UNCHANGED <<workerVars, remapVars, iniVars, jobVars, guiVars>>

\* Lines 528-570: one slot of the region at hand, or the end of its slots.
ProbeNextChunk ==
  /\ ppc = "chunks"
  /\ LET r == pin.files[rf].content
         exhausted == pin.max_chunks > 0 /\ chunks_scanned >= pin.max_chunks
     IN IF ptr = NumSlots
        THEN IF exhausted
             THEN ProbeNotFound
             ELSE /\ rf' = rf + 1
                  /\ ppc' = "regions"
                  /\ UNCHANGED <<ptr, regions_scanned, chunks_scanned, prc, plog>>
        ELSE LET loc == ReadLocations(r)[ptr]
                 got == GetChunkBlob(r, loc.off, loc.count)
                 dec == Decompress(got.blob)
                 nbt == ParseNbt(dec.raw)
                 hs == HitSections(nbt.tree, pin.prefix, pin.yr)
                 k == CHOOSE x \in hs : \A y \in hs : x <= y
             IN IF ~Present(loc)
                THEN /\ ptr' = ptr + 1
                     /\ UNCHANGED <<rf, ppc, regions_scanned, chunks_scanned, prc, plog>>
                ELSE IF exhausted
                THEN ProbeNotFound
                ELSE IF ~got.ok
                THEN /\ ptr' = ptr + 1
                     /\ UNCHANGED <<rf, ppc, regions_scanned, chunks_scanned, prc, plog>>
                ELSE /\ chunks_scanned' = chunks_scanned + 1
                     /\ IF (~dec.ok) \/ (~nbt.ok) \/ hs = {}
                        THEN /\ ptr' = ptr + 1
                             /\ UNCHANGED <<ppc, prc, plog>>
                        ELSE /\ plog' = Append(plog,
                                  FoundLine(rf, ptr, nbt.tree.sections[k].Y,
                                            LoggedHits(nbt.tree.sections[k].palette,
                                                       pin.prefix)))
                             /\ prc' = 0
                             /\ ppc' = "returned"
                             /\ UNCHANGED ptr
                     /\ UNCHANGED <<rf, regions_scanned>>
  /\ UNCHANGED pin
  /\ UNCHANGED <<workerVars, remapVars, iniVars, jobVars, guiVars>>

NextProbe ==
  \/ ProbeStart
  \/ ProbeNextRegion
  \/ ProbeNextChunk

SpecProbe == InitProbe /\ [][NextProbe]_vars

\* ------------------------------------------------------------ one job
InitJob ==
  /\ WorkerOff
  /\ GuiIdle
  /\ RemapIdle
  /\ IniIdle
  /\ ProbeIdle
  /\ caller \in {"cli", "gui"}
  /\ env \in JobEnvs
  /\ jpc = "ready"
  /\ JobLocals

notJobVars == <<workerVars, remapVars, iniVars, probeVars, guiVars>>

\* main() calls run(); App._start checks the mapping path, shows the
\* arguments and starts the worker thread that calls run() (gui, 502-543).
Launch ==
  /\ jpc = "ready"
  /\ IF caller = "gui" /\ env.mapping_ini = "missing"
     THEN /\ log' = Append(log, Line("ERROR", <<"Mapping INI not found">>))
          /\ jpc' = "exited"
     ELSE IF caller = "gui"
     THEN /\ log' = Append(log, Line("Running with args", <<>>))
          /\ jpc' = "setup"
     ELSE /\ jpc' = "setup"
          /\ UNCHANGED log
  /\ UNCHANGED <<caller, env, exc, futures, collected, totals, stderr, jrc, cancelled>>
  /\ UNCHANGED notJobVars

\* Lines 789-873: the setup checks, the setup lines, one future per region.
Setup ==
  /\ jpc = "setup"
  /\ IF ~env.region_dir_exists
     THEN /\ exc' = Exc("SystemExit", "Region folder not found")
          /\ jpc' = "raised"
          /\ UNCHANGED <<log, futures>>
     ELSE IF env.mapping_ini = "missing"
     THEN /\ exc' = Exc("SystemExit", "Mapping INI not found")
          /\ jpc' = "raised"
          /\ UNCHANGED <<log, futures>>
     ELSE IF Len(env.files) = 0
     THEN /\ exc' = Exc("SystemExit", "No region files found")
          /\ jpc' = "raised"
          /\ UNCHANGED <<log, futures>>
     ELSE /\ log' = log \o SetupLines(env)
          /\ futures' = [i \in 1 .. Len(env.files) |-> PendingFuture]
          /\ jpc' = "collect"
          /\ UNCHANGED exc
  /\ UNCHANGED <<caller, env, collected, totals, stderr, jrc, cancelled>>
  /\ UNCHANGED notJobVars

Running == {i \in 1 .. Len(futures) : futures[i].state = "running"}
Pending == {i \in 1 .. Len(futures) : futures[i].state = "pending"}
Done == {i \in 1 .. Len(futures) : futures[i].state = "done"}

\* The pool hands the oldest queued region to a free worker process; it
\* does so until the executor has shut down, that is while run() is inside
\* the with block or leaving it.
WorkerBegin ==
  /\ jpc \in {"collect", "unwinding"}
  /\ Pending # {}
  /\ Cardinality(Running) < env.processes
  /\ LET i == CHOOSE x \in Pending : \A y \in Pending : x <= y
     IN futures' = [futures EXCEPT ![i].state = "running"]
  /\ UNCHANGED <<caller, env, jpc, exc, collected, totals, log, stderr, jrc, cancelled>>
  /\ UNCHANGED notJobVars

\* A worker process finishes its region: the future holds what
\* _process_region_file returned or raised.
WorkerEnd ==
  /\ \E i \in Running :
       futures' = [futures EXCEPT
                     ![i] = Future("done", WorkerOutcome(env.files[i], JobArgs(env)))]
  /\ UNCHANGED <<caller, env, jpc, exc, collected, totals, log, stderr, jrc, cancelled>>
  /\ UNCHANGED notJobVars

\* Lines 875-900: as_completed yields a finished future; fut.result()
\* re-raises what the worker raised, otherwise the report is added up and a
\* Progress line is logged on a change, on the last region, or when five
\* seconds have passed since the last one.
Collect ==
  /\ jpc = "collect"
  /\ \E i \in Done \ collected :
       IF futures[i].outcome.exc # "none"
       THEN /\ exc' = Exc(futures[i].outcome.exc, "")
            /\ jpc' = "unwinding"
            /\ UNCHANGED <<collected, totals, log>>
       ELSE LET t == AddReport(totals, futures[i].outcome.report)
            IN /\ collected' = collected \cup {i}
               /\ totals' = t
               /\ \E five_seconds \in BOOLEAN :
                    IF \/ futures[i].outcome.report.changed # 0
                       \/ five_seconds
                       \/ t.regions_processed = Len(env.files)
                    THEN log' = Append(log, ProgressLine(t, Len(env.files)))
                    ELSE UNCHANGED log
               /\ UNCHANGED <<exc, jpc>>
  /\ UNCHANGED <<caller, env, futures, stderr, jrc, cancelled>>
  /\ UNCHANGED notJobVars

\* Lines 902-919: every future was taken; the summary is logged.
Summarize ==
  /\ jpc = "collect"
  /\ collected = 1 .. Len(futures)
  /\ log' = IF env.dry_run
            THEN log \o <<SummaryLine(totals), Line("Dry-run", <<>>)>>
            ELSE Append(log, SummaryLine(totals))
  /\ jrc' = 0
  /\ jpc' = "returned"
  /\ UNCHANGED <<caller, env, exc, futures, collected, totals, stderr, cancelled>>
  /\ UNCHANGED notJobVars

\* Line 857: an exception leaves the with block; the executor's exit waits
\* for every submitted future before the exception goes on.
Unwind ==
  /\ jpc = "unwinding"
  /\ Done = 1 .. Len(futures)
  /\ jpc' = "raised"
  /\ UNCHANGED <<caller, env, exc, futures, collected, totals, log, stderr, jrc,
                 cancelled>>
  /\ UNCHANGED notJobVars

\* An interrupt signal while run() waits on line 875. run() installs no
\* handler: KeyboardInterrupt is raised in the controller.  The signal
\* reaches either the controller alone or the worker processes as well,
\* which then abandon the region they are working on.
Interrupt ==
  /\ caller = "cli"
  /\ jpc = "collect"
  /\ ~cancelled
  /\ cancelled' = TRUE
  /\ exc' = Exc("KeyboardInterrupt", "")
  /\ jpc' = "unwinding"
  /\ \E group \in BOOLEAN :
       futures' = [i \in 1 .. Len(futures) |->
                     IF group /\ futures[i].state = "running"
                     THEN Future("done", Outcome("KeyboardInterrupt", NoReport))
                     ELSE futures[i]]
  /\ UNCHANGED <<caller, env, collected, totals, log, stderr, jrc>>
  /\ UNCHANGED notJobVars

\* run() is over.  main() lets the exception reach the interpreter, which
\* writes the SystemExit message or a traceback to stderr (line 928); the
\* GUI worker logs the exit code, or an ERROR line for an Exception, and
\* lets SystemExit end the thread silently (gui, 533-540).
Exit ==
  /\ jpc \in {"returned", "raised"}
  /\ jpc' = "exited"
  /\ IF caller = "cli"
     THEN /\ stderr' = IF jpc = "returned" THEN stderr
                       ELSE IF exc.type = "SystemExit"
                       THEN Append(stderr, Line(exc.msg, <<>>))
                       ELSE Append(stderr, Line("Traceback", <<exc.type>>))
          /\ UNCHANGED log
     ELSE /\ log' = IF jpc = "returned"
                    THEN Append(log, Line("Done. Exit code", <<jrc>>))
                    ELSE IF exc.type \notin {"SystemExit", "KeyboardInterrupt"}
                    THEN Append(log, Line("ERROR", <<exc.type>>))
                    ELSE log
          /\ UNCHANGED stderr
  /\ UNCHANGED <<caller, env, exc, futures, collected, totals, jrc, cancelled>>
  /\ UNCHANGED notJobVars

NextJob ==
  \/ Launch
  \/ Setup
  \/ WorkerBegin
  \/ WorkerEnd
  \/ Collect
  \/ Summarize
  \/ Unwind
  \/ Interrupt
  \/ Exit

SpecJob == InitJob /\ [][NextJob]_vars

\* -------------------------------------------------------------- the GUI
\* A worker thread: "run" while inside core.run, "exiting" between the
\* finally block and the end of the thread, "dead" after; and how core.run
\* ended.
Thread(state, outcome) == [state |-> state, outcome |-> outcome]

InitGui ==
  /\ WorkerOff
  /\ RemapIdle
  /\ IniIdle
  /\ ProbeIdle
  /\ JobIdle
  /\ threads = <<>>
  /\ is_running = FALSE
  /\ start_btn = "normal"
  /\ callbacks = 0
  /\ output = <<>>
  /\ clicks = 0

notGuiVars == <<workerVars, remapVars, iniVars, probeVars, jobVars>>

\* threading.Thread.is_alive() of _worker_thread (gui, 487).
WorkerThreadAlive ==
  Len(threads) > 0 /\ threads[Len(threads)].state # "dead"

\* Faulty variant: _start does not look at the previous worker thread.
ClickRunMut(world, inipath) ==
  /\ clicks < MaxClicks
  /\ clicks' = clicks + 1
  /\ IF start_btn = "disabled"
     THEN UNCHANGED <<threads, is_running, start_btn, output>>
     ELSE IF world = ""
     THEN /\ output' = Append(output, "ERROR: Please select a world folder.")
          /\ UNCHANGED <<threads, is_running, start_btn>>
     ELSE IF inipath = "missing"
     THEN /\ output' = Append(output, "ERROR: Mapping INI not found")
          /\ UNCHANGED <<threads, is_running, start_btn>>
     ELSE /\ output' = Append(output, "Running with args")
          /\ is_running' = TRUE
          /\ start_btn' = "disabled"
          /\ threads' = Append(threads, Thread("run", "none"))
  /\ UNCHANGED callbacks
  /\ UNCHANGED notGuiVars

\* A click on Run.  A disabled button does not call its command; an enabled
\* one calls App._start (gui, 486-543), which calls _set_running(True)
\* (gui, 473-484) before it starts the thread.
ClickRun(world, inipath) ==
  /\ clicks < MaxClicks
  /\ clicks' = clicks + 1
  /\ IF start_btn = "disabled"
     THEN UNCHANGED <<threads, is_running, start_btn, output>>
     ELSE IF WorkerThreadAlive
     THEN UNCHANGED <<threads, is_running, start_btn, output>>
     ELSE IF world = ""
     THEN /\ output' = Append(output, "ERROR: Please select a world folder.")
          /\ UNCHANGED <<threads, is_running, start_btn>>
     ELSE IF inipath = "missing"
     THEN /\ output' = Append(output, "ERROR: Mapping INI not found")
          /\ UNCHANGED <<threads, is_running, start_btn>>
     ELSE /\ output' = Append(output, "Running with args")
          /\ is_running' = TRUE
          /\ start_btn' = "disabled"
          /\ threads' = Append(threads, Thread("run", "none"))
  /\ UNCHANGED callbacks
  /\ UNCHANGED notGuiVars

Click == \E world \in {"", "world"}, inipath \in {"", "missing", "present"} :
           ClickRun(world, inipath)

\* Faulty variant: _set_running(False) is queued after the except clause,
\* not in a finally block, so a SystemExit skips it.
WorkerEndsMut(outcome) ==
  /\ \E i \in 1 .. Len(threads) :
       /\ threads[i].state = "run"
       /\ threads' = [threads EXCEPT ![i] = Thread("exiting", outcome)]
  /\ output' = IF outcome = "returned" THEN Append(output, "Done. Exit code")
               ELSE IF outcome = "Exception" THEN Append(output, "ERROR")
               ELSE output
  /\ callbacks' = IF outcome = "SystemExit" THEN callbacks ELSE callbacks + 1
  /\ UNCHANGED <<is_running, start_btn, clicks>>
  /\ UNCHANGED notGuiVars

\* The body of worker() (gui, 533-540): core.run returns, raises an
\* Exception or raises SystemExit; the finally block queues
\* _set_running(False) on the Tk event loop in each case.
WorkerEnds(outcome) ==
  /\ \E i \in 1 .. Len(threads) :
       /\ threads[i].state = "run"
       /\ threads' = [threads EXCEPT ![i] = Thread("exiting", outcome)]
  /\ output' = IF outcome = "returned" THEN Append(output, "Done. Exit code")
               ELSE IF outcome = "Exception" THEN Append(output, "ERROR")
               ELSE output
  /\ callbacks' = callbacks + 1
  /\ UNCHANGED <<is_running, start_btn, clicks>>
  /\ UNCHANGED notGuiVars

RunEnds == \E outcome \in {"returned", "Exception", "SystemExit"} : WorkerEnds(outcome)

\* The thread that left worker() ends.
ThreadExit ==
  /\ \E i \in 1 .. Len(threads) :
       /\ threads[i].state = "exiting"
       /\ threads' = [threads EXCEPT ![i].state = "dead"]
  /\ UNCHANGED <<is_running, start_btn, callbacks, output, clicks>>
  /\ UNCHANGED notGuiVars

\* The Tk event loop runs a queued _set_running(False) (gui, 473-484).
SetRunningFalse ==
  /\ callbacks > 0
  /\ callbacks' = callbacks - 1
  /\ is_running' = FALSE
  /\ start_btn' = "normal"
  /\ UNCHANGED <<threads, output, clicks>>
  /\ UNCHANGED notGuiVars

NextGui ==
  \/ Click
  \/ RunEnds
  \/ ThreadExit
  \/ SetRunningFalse

\* app.mainloop() keeps running queued callbacks (gui, 549).
SpecGui == InitGui /\ [][NextGui]_vars /\ WF_vars(SetRunningFalse)

\* ------------------------------------------------------------ properties
WriteSteps == {"backup", "bak_write", "tmp_open", "tmp_write", "replace"}

\* The call got past _rebuild_region: `rebuilt` holds the new region bytes.
HasRebuilt ==
  \/ pc \in WriteSteps
  \/ pc = "crashed" /\ crashedAt \in WriteSteps
  \/ pc = "returned" /\ ~ReturnsEarly(loop, args)

\* The rename happened: the region file was modified by this call.
Modified == pc = "returned" /\ ~ReturnsEarly(loop, args)

InBlob(idx) ==
  GetChunkBlob(original, original.locs[idx].off, original.locs[idx].count)
OutBlob(idx) ==
  GetChunkBlob(rebuilt, rebuilt.locs[idx].off, rebuilt.locs[idx].count)

\* The chunk of slot idx was read and raised in the try block.
ErrorChunk(idx) ==
  /\ Present(original.locs[idx])
  /\ InBlob(idx).ok
  /\ \/ ~Decompress(InBlob(idx).blob).ok
     \/ ~ParseNbt(Decompress(InBlob(idx).blob).raw).ok

ChangedChunk(idx) == idx \in DOMAIN loop.updated

\* C1: during the write phase, a crash at any step included, the .mca holds
\* exactly the original bytes or exactly the complete rebuilt bytes, and it
\* still holds the original bytes while the written .tmp awaits the rename.
C1_AtomicReplace ==
  HasRebuilt =>
    /\ mca = FullFile(original) \/ mca = FullFile(rebuilt)
    /\ (pc = "replace" \/ (pc = "crashed" /\ crashedAt = "replace"))
         => (mca = atStart.mca /\ mca = FullFile(original))

C1_Witness ==
  /\ pc = "crashed"
  /\ crashedAt = "replace"
  /\ tmp = FullFile(rebuilt)
  /\ rebuilt # original
  /\ mca = FullFile(original)

\* C2 as stated: after a run with make_backup that modified the region, the
\* .bak holds exactly the bytes the .mca had before that run.
C2_BackupOfThisRun ==
  (Modified /\ args.make_backup) => bak = FullFile(atStart.mca.content)

\* C2 amended: after a run with make_backup that modified the region a .bak
\* exists; it holds the bytes the .mca had before that run if no .bak existed
\* when the run began, and otherwise it is the file that already existed.
C2_BackupCreateOnce ==
  (Modified /\ args.make_backup) =>
    /\ bak.exists
    /\ IF atStart.bak.exists
       THEN bak = atStart.bak
       ELSE bak = FullFile(atStart.mca.content)

C2_Witness ==
  /\ Modified
  /\ args.make_backup
  /\ atStart.bak.exists
  /\ bak = atStart.bak
  /\ bak # FullFile(atStart.mca.content)

\* C3: an existing .bak is never changed: every step that changes the .bak
\* either creates it or completes the write that created it in this call.
C3_BackupNeverOverwritten ==
  [][bak' # bak =>
       \/ ~bak.exists
       \/ pc = "bak_write" /\ ~atStart.bak.exists /\ bak = PartialFile(original)]_vars

C3_Witness ==
  /\ pc = "tmp_open"
  /\ args.make_backup
  /\ atStart.bak.exists
  /\ bak = atStart.bak
  /\ bak.content # original

\* C4: with dry_run no step writes, creates or renames a file, and the
\* returned counters are those the call returns without dry_run.
C4_DryRunPure ==
  /\ (pc # "idle" /\ args.dry_run) =>
       /\ mca = atStart.mca /\ bak = atStart.bak /\ tmp = atStart.tmp
       /\ pc \notin WriteSteps
  /\ pc = "returned" =>
       report = Report(ChunkLoop(original, [args EXCEPT !.dry_run = FALSE], NumSlots))

C4_Witness ==
  /\ pc = "returned"
  /\ args.dry_run
  /\ report.changed > 0
  /\ report.entries_changed > 0
  /\ mca = atStart.mca /\ bak = atStart.bak /\ tmp = atStart.tmp

SectorRange(loc) == loc.off .. (loc.off + loc.count - 1)

\* C6: in the rebuilt region every present slot has offset >= 2, count >= 1,
\* a sector range inside the file, and no two present slots overlap.
C6_SectorsValid ==
  HasRebuilt =>
    /\ \A i \in Slots :
         Present(rebuilt.locs[i]) =>
           /\ rebuilt.locs[i].off >= 2
           /\ rebuilt.locs[i].count >= 1
           /\ (rebuilt.locs[i].off + rebuilt.locs[i].count) * SECTOR_BYTES
                <= rebuilt.len
    /\ \A i \in Slots, j \in Slots :
         (i # j /\ Present(rebuilt.locs[i]) /\ Present(rebuilt.locs[j]))
           => SectorRange(rebuilt.locs[i]) \cap SectorRange(rebuilt.locs[j]) = {}

C6_Witness ==
  /\ pc = "backup"
  /\ \E i \in Slots, j \in Slots :
       /\ i # j
       /\ Present(rebuilt.locs[i])
       /\ Present(rebuilt.locs[j])
       /\ rebuilt.locs[i].count >= 2

\* The pass that a second call with the same arguments makes over the file.
SecondPass == ChunkLoop(mca.content, args, NumSlots)

\* C7 as stated: after one pass with M and F, a second pass with the same M
\* and F changes zero palette entries, for any M and F.
C7_Idempotent ==
  Modified => SecondPass.entries_changed = 0

\* No replacement target (a value of M, or F) is itself remapped by M and F.
Targets(M, F) == {p[2] : p \in M} \cup (IF F.has THEN {F.val} ELSE {})
StableMapping(M, F) ==
  \A v \in Targets(M, F) :
    LET r == Replacement(Normalize(v), M, F)
    IN (~r.has) \/ r.val = Normalize(v)

\* C7 amended: the second pass changes zero palette entries provided no
\* replacement target of M and F is itself remapped by M and F.
C7_IdempotentWhenStable ==
  (Modified /\ StableMapping(args.mapping, args.F))
    => /\ SecondPass.entries_changed = 0
       /\ SecondPass.changed = 0

C7_Witness ==
  /\ Modified
  /\ StableMapping(args.mapping, args.F)
  /\ report.entries_changed > 1
  /\ SecondPass.entries_changed = 0

SectionFrame(sec) == [sec EXCEPT !.palette = <<>>]

\* C8: a remapped chunk differs from its input only in palette entries that
\* the remap step overwrites: palettes keep length and order, the other
\* entries keep their value, everything else in the tree is equal.
C8_OnlyPaletteStrings ==
  (pc \notin {"idle", "process"}) =>
    \A idx \in DOMAIN loop.updated :
      LET old == InBlob(idx).blob.payload.tree
          new == loop.updated[idx].blob.payload.tree
      IN /\ new.skey = old.skey
         /\ new.bulk = old.bulk
         /\ Len(new.sections) = Len(old.sections)
         /\ \A k \in 1 .. Len(old.sections) :
              /\ SectionFrame(new.sections[k]) = SectionFrame(old.sections[k])
              /\ Len(new.sections[k].palette) = Len(old.sections[k].palette)
              /\ \A i \in 1 .. Len(old.sections[k].palette) :
                   \/ new.sections[k].palette[i] = old.sections[k].palette[i]
                   \/ /\ SectionRemapped(old.sections[k], args.yr)
                      /\ Overwrites(old.sections[k].palette[i], args.mapping, args.F)
                      /\ new.sections[k].palette[i]
                           = Replacement(Normalize(old.sections[k].palette[i]),
                                         args.mapping, args.F).val

C8_Witness ==
  /\ pc = "rebuild"
  /\ \E idx \in DOMAIN loop.updated :
       LET old == InBlob(idx).blob.payload.tree
           new == loop.updated[idx].blob.payload.tree
       IN /\ new # old
          /\ \E k \in 1 .. Len(old.sections) :
               /\ new.sections[k].palette[1] # old.sections[k].palette[1]
               /\ new.sections[k].palette[2] = old.sections[k].palette[2]
               /\ old.sections[k].palette[2].ns = "universal_minecraft"

\* C9: every chunk present in the input and in the rewritten output keeps
\* its compression tag, recompressed or copied.
C9_TagPreserved ==
  HasRebuilt =>
    \A idx \in Slots :
      (InBlob(idx).ok /\ Present(rebuilt.locs[idx]))
        => /\ OutBlob(idx).ok
           /\ OutBlob(idx).blob.tag = InBlob(idx).blob.tag

C9_Witness ==
  /\ Modified
  /\ \E idx \in Slots :
       /\ ChangedChunk(idx)
       /\ InBlob(idx).blob.tag = 1
       /\ OutBlob(idx).blob.tag = 1
       /\ OutBlob(idx).blob # InBlob(idx).blob

\* C10 as stated: an unchanged chunk keeps its timestamp; a changed chunk
\* gets the wall-clock time read during the rebuild, which is at or after
\* the start of the job.
C10_TimestampAfterStart ==
  HasRebuilt =>
    \A idx \in Slots :
      Present(rebuilt.locs[idx]) =>
        IF ChangedChunk(idx)
        THEN /\ rebuilt.ts[idx] = now_ts
             /\ rebuilt.ts[idx] * TicksPerSecond >= started
        ELSE rebuilt.ts[idx] = original.ts[idx]

\* C10 amended: an unchanged chunk keeps its timestamp; a changed chunk gets
\* the wall-clock time read during the rebuild truncated to whole seconds,
\* which is at or after the start of the job truncated to whole seconds.
C10_TimestampPolicy ==
  HasRebuilt =>
    \A idx \in Slots :
      Present(rebuilt.locs[idx]) =>
        IF ChangedChunk(idx)
        THEN /\ rebuilt.ts[idx] = now_ts
             /\ rebuilt.ts[idx] >= started \div TicksPerSecond
             /\ rebuilt.ts[idx] <= clock \div TicksPerSecond
        ELSE rebuilt.ts[idx] = original.ts[idx]

C10_Witness ==
  /\ Modified
  /\ \E i \in Slots, j \in Slots :
       /\ ChangedChunk(i)
       /\ rebuilt.ts[i] = now_ts
       /\ rebuilt.ts[i] * TicksPerSecond < started
       /\ ~ChangedChunk(j)
       /\ Present(rebuilt.locs[j])
       /\ rebuilt.ts[j] = original.ts[j]
       /\ rebuilt.ts[j] # now_ts

\* The chunks of a region file that the worker reads and parses.
ParsedChunk(r, idx) ==
  LET got == GetChunkBlob(r, r.locs[idx].off, r.locs[idx].count)
  IN /\ Present(r.locs[idx])
     /\ got.ok
     /\ Decompress(got.blob).ok
     /\ ParseNbt(Decompress(got.blob).raw).ok

ChunkTree(r, idx) == r.data[r.locs[idx].off].payload.tree

\* No palette entry of the region has a normalized form that is a key of M,
\* and none is a terralith id with the fallback set.
NothingToRemap(r, a) ==
  \A idx \in Slots :
    ParsedChunk(r, idx) =>
      \A k \in 1 .. Len(ChunkTree(r, idx).sections) :
        \A i \in 1 .. Len(ChunkTree(r, idx).sections[k].palette) :
          LET n == Normalize(ChunkTree(r, idx).sections[k].palette[i])
          IN /\ ~(\E p \in a.mapping : p[1] = n)
             /\ ~(a.F.has /\ n.ns = "terralith")

ClaimNormalized(e) ==
  CASE e.ns = "universal_minecraft" -> Id("minecraft", e.name)
    [] e.ns = "universal_terralith" -> Id("terralith", e.name)
    [] OTHER -> e

ClaimReplacement(n, M, F) ==
  IF \E p \in M : p[1] = n THEN Some((CHOOSE p \in M : p[1] = n)[2])
  ELSE IF F.has /\ n.ns = "terralith" THEN F
  ELSE None

ClaimOverwritten(e, M, F) ==
  LET R == ClaimReplacement(ClaimNormalized(e), M, F)
  IN R.has /\ R.val # ClaimNormalized(e)

\* The sections of the call's chunk whose palette the loop body visits.
ProcessedSections ==
  IF HasSections(rin.root)
  THEN {k \in 1 .. Len(rin.root.sections) : SectionRemapped(rin.root.sections[k], rin.yr)}
  ELSE {}

MappedPalette(k) ==
  [i \in 1 .. Len(rin.root.sections[k].palette) |->
     NewEntry(rin.root.sections[k].palette[i], rin.M, rin.F)]

\* [Y*16, Y*16+15] and [y_min, y_max] have a block height in common.
InYRange(sec, yr) ==
  ((sec.Y.val * 16) .. (sec.Y.val * 16 + 15)) \cap (yr.lo .. yr.hi) # {}

C16_AllShapesRemapped ==
  rpc = "done" =>
    \A k \in 1 .. Len(rin.root.sections) :
      LET sec == rin.root.sections[k]
      IN (/\ rin.root.skey \in {"sections", "Sections", "Level.sections", "Level.Sections"}
          /\ sec.ckey \in {"biomes", "Biomes"}
          /\ sec.pkey \in {"palette", "Palette"}
          /\ ~SectionSkipped(sec, rin.yr))
         => rout.tree.sections[k].palette = MappedPalette(k)

\* The lines of the loaded file that give the same source id as line j.
SameSource(j) ==
  {i \in 1 .. Len(ini.lines) : Normalize(ini.lines[i].key) = Normalize(ini.lines[j].key)}

LastOf(S) == CHOOSE i \in S : \A k \in S : k <= i

GivenTwice == \E j \in 1 .. Len(ini.lines) : Cardinality(SameSource(j)) > 1

\* C18: when the [mapping] section of a readable INI file gives a source id
\* on more than one line, the loaded mapping sends every source id of the file
\* to the target of the last line that gives it.
C18_LastDuplicateWins ==
  (/\ ipc = "done"
   /\ ini.exists /\ ini.wellformed /\ ini.section
   /\ \A j \in 1 .. Len(ini.lines) : ini.lines[j].val.has
   /\ GivenTwice) =>
    \A j \in 1 .. Len(ini.lines) :
      MappingGet(loaded, Normalize(ini.lines[j].key))
        = Some(NormalizeTarget(Normalize(ini.lines[LastOf(SameSource(j))].val.val)))

\* The chunk of slot i of file j can be extracted.
Extractable(j, i) ==
  LET f == pin.files[j]
  IN /\ f.readable
     /\ HeaderReadable(f.content)
     /\ Present(f.content.locs[i])
     /\ GetChunkBlob(f.content, f.content.locs[i].off, f.content.locs[i].count).ok

\* The chunks that come before slot i of file j in the walk.
ChunksBefore(j, i) ==
  Cardinality({c \in (1 .. Len(pin.files)) \X Slots :
                 /\ Extractable(c[1], c[2])
                 /\ (c[1] < j \/ (c[1] = j /\ c[2] < i))})

WithinBudgets(j, i) ==
  /\ pin.max_regions = 0 \/ j <= pin.max_regions
  /\ pin.max_chunks = 0 \/ ChunksBefore(j, i) < pin.max_chunks

\* Section k of the chunk in slot i of file j passes the Y filter and its
\* palette holds an entry whose normalized id starts with the prefix.
HitAt(j, i, k) ==
  LET blob == pin.files[j].content.data[pin.files[j].content.locs[i].off]
      root == blob.payload.tree
  IN /\ Extractable(j, i)
     /\ WithinBudgets(j, i)
     /\ Decompress(blob).ok
     /\ ParseNbt(Decompress(blob).raw).ok
     /\ root.skey \in {"sections", "Sections", "Level.sections", "Level.Sections"}
     /\ k \in 1 .. Len(root.sections)
     /\ root.sections[k].ckey \in {"biomes", "Biomes"}
     /\ root.sections[k].pkey \in {"palette", "Palette"}
     /\ (pin.yr.has /\ root.sections[k].Y.has) => InYRange(root.sections[k], pin.yr)
     /\ \E e \in 1 .. Len(root.sections[k].palette) :
          StartsWith(ClaimNormalized(root.sections[k].palette[e]), pin.prefix)

HitPlaces ==
  {h \in (1 .. Len(pin.files)) \X Slots \X (1 .. 2) : HitAt(h[1], h[2], h[3])}

Earlier(g, h) ==
  \/ g[1] < h[1]
  \/ g[1] = h[1] /\ g[2] < h[2]
  \/ g[1] = h[1] /\ g[2] = h[2] /\ g[3] <= h[3]

FirstHit == CHOOSE h \in HitPlaces : \A g \in HitPlaces : Earlier(h, g)

HitSectionY(h) ==
  LET r == pin.files[h[1]].content
  IN r.data[r.locs[h[2]].off].payload.tree.sections[h[3]].Y

ProbeOver == ppc \in {"returned", "raised"}

\* C17: probe mode with a non-empty prefix ends with exit code 0 exactly when
\* some palette within the budgets has a hit, and then reports the first such
\* palette of the walk; otherwise it logs 'Not found' and returns 2.
C17_ProbeFindsFirstHit ==
  (ProbeOver /\ ~pin.prefix.blank) =>
    IF HitPlaces # {}
    THEN /\ prc = 0
         /\ Len(plog) = 1
         /\ plog[1].kind = "FOUND"
         /\ plog[1].file = FirstHit[1]
         /\ plog[1].chunk_idx = FirstHit[2]
         /\ plog[1].sectionY = HitSectionY(FirstHit)
    ELSE /\ prc = 2
         /\ Len(plog) = 1
         /\ plog[1].kind = "Not found"

\* The regions whose worker raised on its own (short file, failed read,
\* chunk too large on rebuild).
FailedWorkers ==
  {i \in 1 .. Len(futures) :
     /\ futures[i].state = "done"
     /\ futures[i].outcome.exc \in {"OSError", "IndexError", "ValueError"}}

Logged(kind) == \E k \in 1 .. Len(log) : log[k].kind = kind

\* C11: when the worker of a region fails, the failure is logged, the result
\* of every other region is collected, and the job completes with its summary.
C11_FailedRegionIsolated ==
  (jpc = "exited" /\ ~cancelled /\ FailedWorkers # {}) =>
    /\ Logged("ERROR")
    /\ \A i \in (1 .. Len(futures)) \ FailedWorkers : i \in collected
    /\ Logged("Summary")

\* C12: every job that got past setup and dispatched its region workers has
\* logged the 'Summary:' line by the time it ends, whatever the workers did.
C12_SummaryAlwaysLogged ==
  (jpc = "exited" /\ ~cancelled /\ Len(futures) > 0) => Logged("Summary")

SetupError ==
  \/ ~env.region_dir_exists
  \/ env.mapping_ini = "missing"
  \/ Len(env.files) = 0

\* C19: a job that ends on a fatal setup error (region directory missing, no
\* region files, mapping file not found) has shown a log line prefixed
\* 'ERROR:', from the command line and from the GUI alike.
C19_SetupErrorLogged ==
  (jpc = "exited" /\ SetupError) => Logged("ERROR")

\* C20: once the cancellation signal has arrived no queued region is started,
\* and no worker is made to abandon the region it is processing.
C20_CancelStopsDispatch ==
  [][/\ cancelled =>
          \A i \in 1 .. Len(futures) :
            futures[i].state = "pending" => futures'[i].state = "pending"
     /\ \A i \in 1 .. Len(futures') :
          futures'[i].outcome.exc # "KeyboardInterrupt"]_vars

\* The blob _rebuild_region places for slot idx: the one in updated_blobs,
\* or else the one extracted from the input.
PlacedBlob(idx) ==
  IF idx \in DOMAIN loop.updated THEN loop.updated[idx].blob ELSE InBlob(idx).blob

\* The slots _rebuild_region places a blob for.
PlacedSlots ==
  {i \in Slots :
     /\ Present(original.locs[i])
     /\ (i \in DOMAIN loop.updated \/ InBlob(i).ok)}

\* The slots whose blob needs more than 255 sectors.
Oversize == {i \in PlacedSlots : BlobLen(PlacedBlob(i)) > MAX_SECTORS * SECTOR_BYTES}

\* C23: when some blob, changed or copied, needs more than 255 sectors, the
\* call that reached _rebuild_region ends there: it never enters the write
\* steps, and the .mca, the .bak and the .tmp are as they were at its start.
C23_TooLargeWritesNothing ==
  (Oversize # {} /\ ~ReturnsEarly(loop, args)) =>
    /\ pc \in {"rebuild", "raised", "crashed"}
    /\ pc = "crashed" => crashedAt = "rebuild"
    /\ mca = atStart.mca
    /\ bak = atStart.bak
    /\ tmp = atStart.tmp

C23_Witness ==
  /\ pc = "raised"
  /\ args.make_backup
  /\ \E i \in Oversize, j \in Oversize :
       /\ i \in DOMAIN loop.updated
       /\ j \notin DOMAIN loop.updated

\* The bounds a blob must meet to be extracted, from the location entry and
\* the declared length L.
BlobInBounds(r, loc) ==
  /\ loc.off * SECTOR_BYTES + 5 <= r.len
  /\ loc.off * SECTOR_BYTES + loc.count * SECTOR_BYTES <= r.len
  /\ DeclaredLength(r, loc.off) >= 1
  /\ loc.off * SECTOR_BYTES + 4 + DeclaredLength(r, loc.off) <= r.len

\* C24: a slot of the rebuilt region is present exactly when it was present
\* in the input and has an entry in updated_blobs or an extractable blob;
\* every other slot has an all-zero location and an all-zero timestamp.
C24_PresentIffPlaced ==
  HasRebuilt =>
    \A i \in Slots :
      /\ Present(rebuilt.locs[i]) <=>
           /\ Present(original.locs[i])
           /\ (i \in DOMAIN loop.updated \/ BlobInBounds(original, original.locs[i]))
      /\ ~Present(rebuilt.locs[i]) =>
           /\ rebuilt.locs[i] = Loc(0, 0)
           /\ rebuilt.ts[i] = 0

C24_Witness ==
  /\ pc = "backup"
  /\ \E i \in Slots, j \in Slots :
       /\ Present(original.locs[i])
       /\ ~BlobInBounds(original, original.locs[i])
       /\ original.ts[i] # 0
       /\ rebuilt.locs[i] = Loc(0, 0)
       /\ rebuilt.ts[i] = 0
       /\ j \in DOMAIN loop.updated
       /\ Present(rebuilt.locs[j])

\* The sectors taken by the present slots of a location table below index n.
RECURSIVE CountsBelow(_, _)
CountsBelow(locs, n) ==
  IF n = 0 THEN 0
  ELSE CountsBelow(locs, n - 1)
       + (IF Present(locs[n - 1]) THEN locs[n - 1].count ELSE 0)

\* C25: the rebuilt region is compact and index-ordered: a present slot
\* starts at sector 2 plus the sector counts of the present slots of lower
\* index, the file is 2 plus all sector counts long, and what a slot holds is
\* fixed by the input and updated_blobs: the blob placed for it, over just
\* the sectors that blob needs.
C25_CompactInIndexOrder ==
  HasRebuilt =>
    /\ \A i \in Slots :
         Present(rebuilt.locs[i]) =>
           /\ rebuilt.locs[i].off = 2 + CountsBelow(rebuilt.locs, i)
           /\ rebuilt.locs[i].count = SectorsNeeded(PlacedBlob(i))
           /\ rebuilt.locs[i].off \in DOMAIN rebuilt.data
           /\ rebuilt.data[rebuilt.locs[i].off] = PlacedBlob(i)
    /\ rebuilt.len = (2 + CountsBelow(rebuilt.locs, NumSlots)) * SECTOR_BYTES

C25_Witness ==
  /\ pc = "backup"
  /\ \E i \in Slots, j \in Slots :
       /\ i < j
       /\ original.locs[i].off > original.locs[j].off
       /\ Present(rebuilt.locs[i])
       /\ Present(rebuilt.locs[j])
       /\ rebuilt.locs[i].off = 2
       /\ rebuilt.locs[j].off = 2 + rebuilt.locs[i].count
       /\ rebuilt.locs[i].count # original.locs[i].count

\* The location table of _rebuild_region before it is encoded into the
\* header (new_locs, line 615).
NewLocs == RebuildLoop(original, loop.updated, now_ts, NumSlots).locs

\* The highest sector offset a slot can get: every slot below it full.
MaxOffset == 2 + (NumSlots - 1) * MAX_SECTORS

\* C30: when _rebuild_region does not raise, every recorded location has a
\* sector count in 1..255 and a sector offset in 2..2^24-1, at most 2 plus
\* 255 sectors per slot below it, so the header entry read back equals the
\* entry recorded: neither the 3-byte offset nor count & 0xFF loses a bit.
C30_LocationsFitHeader ==
  HasRebuilt =>
    \A i \in Slots :
      Present(NewLocs[i]) =>
        /\ NewLocs[i].count \in 1 .. MAX_SECTORS
        /\ NewLocs[i].off \in 2 .. (16777216 - 1)
        /\ NewLocs[i].off <= MaxOffset
        /\ rebuilt.locs[i] = NewLocs[i]

C30_Witness ==
  /\ pc = "backup"
  /\ \E i \in Slots, j \in Slots :
       /\ NewLocs[i].count = MAX_SECTORS
       /\ i \in DOMAIN loop.updated
       /\ NewLocs[j].off = 2 + MAX_SECTORS
       /\ rebuilt.locs[j] = NewLocs[j]

\* C27: starting with no .bak, over runs that all ask for a backup and may
\* be killed at any step, whenever the .mca differs from the original bytes
\* of the region the .bak exists and holds those bytes, all of them.
C27_BackupHoldsOriginal ==
  (mca.content # pristine.content) => bak = FullFile(pristine.content)

\* The same, over the runs none of which was killed while writing the .bak.
C27_UnlessKilledInBackup ==
  (mca.content # pristine.content /\ bak.complete) => bak = FullFile(pristine.content)

\* The file or text gives the loader nothing to return: it cannot be parsed,
\* has no [mapping] section, or has no line with a key and a value.
NothingToLoad ==
  \/ ~ini.wellformed
  \/ ~ini.section
  \/ \A j \in 1 .. Len(ini.lines) : ~ini.lines[j].val.has

\* C28: a loaded mapping is never empty; when the file is missing, or the
\* file or text gives nothing to load, it is exactly the one-entry mapping
\* terralith:yellowstone -> minecraft:badlands, so yellowstone is remapped.
C28_NeverEmptyMapping ==
  (ipc \in {"done", "done_text"}) =>
    /\ loaded # {}
    /\ ((ipc = "done" /\ ~ini.exists) \/ NothingToLoad) =>
         /\ loaded = { <<Yellowstone, Badlands>> }
         /\ Replacement(Yellowstone, loaded, None) = Some(Badlands)

C28_Witness ==
  /\ ipc = "done"
  /\ ini.exists /\ ini.wellformed /\ ini.section
  /\ Len(ini.lines) > 0
  /\ \A j \in 1 .. Len(ini.lines) : ~ini.lines[j].val.has
  /\ loaded = { <<Yellowstone, Badlands>> }

\* The extractable chunks of the first n region files.
ExtractableIn(n) ==
  Cardinality({c \in (1 .. n) \X Slots : Extractable(c[1], c[2])})

ChunkBudgetSpent == pin.max_chunks > 0 /\ chunks_scanned >= pin.max_chunks

ProbeGaveUp == ppc = "returned" /\ prc = 2 /\ ~pin.prefix.blank

\* At every step of the probe the counters are within the positive budgets,
\* and a probe that found nothing was stopped by no budget of 0: with no
\* chunk budget it scanned every chunk of the regions it read, and with no
\* region budget it read every region unless the chunk budget ran out.
BudgetsKept ==
  /\ pin.max_regions > 0 => regions_scanned <= pin.max_regions
  /\ pin.max_chunks > 0 => chunks_scanned <= pin.max_chunks
  /\ (ProbeGaveUp /\ pin.max_chunks = 0) =>
       chunks_scanned = ExtractableIn(regions_scanned)
  /\ (ProbeGaveUp /\ pin.max_regions = 0 /\ ~ChunkBudgetSpent) =>
       regions_scanned = Len(pin.files)

\* C26: in probe mode regions_scanned and chunks_scanned never exceed a
\* positive budget, a budget of 0 is no limit, the chunk count runs on from
\* one region to the next, and once the chunk budget is spent no further
\* region is read.
C26_ProbeBudgets ==
  /\ []BudgetsKept
  /\ [][/\ chunks_scanned' >= chunks_scanned
        /\ ChunkBudgetSpent =>
             (regions_scanned' = regions_scanned /\ rf' = rf)]_vars

C26_Witness ==
  /\ ProbeGaveUp
  /\ pin.max_regions = 0
  /\ pin.max_chunks = 3
  /\ chunks_scanned = 3
  /\ regions_scanned = 2
  /\ ExtractableIn(1) = 2
  /\ ExtractableIn(2) = 4

\* The positions of the Progress lines in the log.
ProgressAt == {k \in 1 .. Len(log) : log[k].kind = "Progress"}

\* The counters of the reports of a set of futures, added up.
RECURSIVE SumReports(_)
SumReports(S) ==
  IF S = {} THEN NoReport
  ELSE LET i == CHOOSE x \in S : TRUE
           rest == SumReports(S \ {i})
           rep == futures[i].outcome.report
       IN [processed |-> rest.processed + rep.processed,
           changed |-> rest.changed + rep.changed,
           entries_changed |-> rest.entries_changed + rep.entries_changed]

AllSucceeded ==
  /\ Len(futures) > 0
  /\ \A i \in 1 .. Len(futures) :
       futures[i].state = "done" /\ futures[i].outcome.exc = "none"

\* In the Progress lines logged so far B is the number of region files, A
\* grows strictly and stays within B, the counters never fall, and when all
\* workers succeeded the summary comes after a line with A = B.
ProgressInOrder ==
  /\ \A k \in ProgressAt :
       /\ log[k].vals[2] = Len(env.files)
       /\ log[k].vals[1] <= log[k].vals[2]
  /\ \A k \in ProgressAt, l \in ProgressAt :
       k < l =>
         /\ log[k].vals[1] < log[l].vals[1]
         /\ log[k].vals[3] <= log[l].vals[3]
         /\ log[k].vals[4] <= log[l].vals[4]
         /\ log[k].vals[5] <= log[l].vals[5]
  /\ AllSucceeded =>
       \A s \in 1 .. Len(log) :
         log[s].kind = "Summary" =>
           \E k \in ProgressAt : k < s /\ log[k].vals[1] = log[k].vals[2]

\* C22: whatever the order in which the workers finish, the Progress lines
\* are in order as above, and each carries, when it is logged, the number of
\* results taken so far and the sums of their chunk and palette counters.
C22_ProgressLines ==
  /\ []ProgressInOrder
  /\ [][(Len(log') = Len(log) + 1 /\ log'[Len(log')].kind = "Progress") =>
          log'[Len(log')].vals =
            << Cardinality(collected'), Len(env.files),
               SumReports(collected').processed,
               SumReports(collected').changed,
               SumReports(collected').entries_changed >>]_vars

C22_Witness ==
  /\ jpc = "returned"
  /\ AllSucceeded
  /\ \E k \in ProgressAt, l \in ProgressAt :
       /\ k < l
       /\ log[k].vals[1] = 1
       /\ log[k].vals[4] > 0
       /\ log[l].vals[1] = log[l].vals[2]
       /\ log[l].vals[4] > log[k].vals[4]
       /\ l < Len(log)
       /\ log[l + 1].kind = "Summary"

\* The path handed to the worker of future i (lines 857-873).
RegionPath(i) == RegionFiles(Listing(Len(env.files)))[i]

\* C21: every region file of the job has one future of its own, a future
\* is run once, and the paths a running worker may write are none of the
\* paths another worker reads or writes.
C21_WorkersDisjoint ==
  /\ [](Len(futures) > 0 =>
         /\ Len(futures) = Len(RegionFiles(Listing(Len(env.files))))
         /\ \A i \in 1 .. Len(futures), j \in 1 .. Len(futures) :
              i # j =>
                /\ RegionPath(i) # RegionPath(j)
                /\ WritePaths(RegionPath(i))
                     \cap (ReadPaths(RegionPath(j)) \cup WritePaths(RegionPath(j))) = {})
  /\ [][\A i \in 1 .. Len(futures) :
          /\ futures[i].state = "running" => futures'[i].state \in {"running", "done"}
          /\ futures[i].state = "done" => futures'[i].state = "done"]_vars

C21_Witness ==
  \E i \in Running, j \in Running :
    /\ i # j
    /\ RegionPath(j) = BackupPath(RegionPath(i)) \o <<"mca">>

\* The worker threads that are inside core.run.
InFlight == {i \in 1 .. Len(threads) : threads[i].state = "run"}

Reset == ~is_running /\ start_btn = "normal"

\* C29: at most one core.run is in flight; _start starts a thread only when
\* no earlier worker thread is alive; and once a run is over, however
\* core.run ended, the reset is queued and then made: the running flag goes
\* back to false and the Run button to normal.
C29_OneJobAtATime ==
  /\ [](/\ Cardinality(InFlight) <= 1
        /\ (InFlight = {} /\ callbacks = 0) => Reset)
  /\ [][Len(threads') > Len(threads) =>
          \A i \in 1 .. Len(threads) : threads[i].state = "dead"]_vars
  /\ (callbacks > 0) ~> Reset

C29_Witness ==
  /\ Reset
  /\ clicks = MaxClicks
  /\ Len(threads) = 2
  /\ threads[1] = Thread("dead", "SystemExit")
  /\ threads[2] = Thread("dead", "Exception")

====
